---- MODULE Spec2Model ----
(***************************************************************************)
(* A model of pylsm: the write-ahead log (wal.py), the Bloom filter        *)
(* (bloom.py), the SSTable file (sstable.py) and the DB engine (db.py).    *)
(*                                                                         *)
(* Files are sequences of bytes (0..255).  A Python `bytes | None` value   *)
(* is an optional: None is <<>> and the bytes b are <<b>>.  A record is    *)
(* the tuple <<key, value, tombstone>>.                                    *)
(*                                                                         *)
(* The library calls are taken to do what the code uses them for: the      *)
(* StreamWriter of WAL.open appends to the segment file and drain returns  *)
(* when the bytes are in it, the file object of SSTable.create is written  *)
(* and closed by its `async with`, msgpack and struct encode as their      *)
(* formats define.                                                         *)
(***************************************************************************)
EXTENDS Integers, Sequences, FiniteSets, TLC

(***************************************************************************)
(* Bounds of the model.                                                    *)
(***************************************************************************)
\* records appended to the WAL segment of SpecWAL
MaxWalRecords == 3
\* items of the list handed to SSTable.create in SpecSST
MaxItems == 3

(***************************************************************************)
(* Program constants.  BLOCK is scaled down from 64 so that short item     *)
(* lists span several sparse-index blocks.                                 *)
(***************************************************************************)
BLOCK == 2
FOOTER_size == 16
RECORD_HDR_size == 9

(***************************************************************************)
(* Bytes                                                                   *)
(***************************************************************************)
None == <<>>
Some(b) == <<b>>

Min(a, b) == IF a < b THEN a ELSE b

\* fp.seek(pos); fp.read(n): at most n bytes, fewer at the end of the file
Read(file, pos, n) ==
  IF pos >= Len(file) \/ n <= 0 THEN <<>>
  ELSE SubSeq(file, pos + 1, Min(pos + n, Len(file)))

\* int.to_bytes(w, "big") and struct's big-endian unsigned fields
RECURSIVE ToBE(_, _)
ToBE(n, w) == IF w = 0 THEN <<>> ELSE ToBE(n \div 256, w - 1) \o <<n % 256>>

\* Values above Huge stand for "larger than any file of the model": a read of
\* that many bytes returns the rest of the file.
Huge == 256 * 256 * 256

\* int.from_bytes(b, "big")
RECURSIVE FromBE(_)
FromBE(b) ==
  IF b = <<>> THEN 0
  ELSE LET hi == FromBE(SubSeq(b, 1, Len(b) - 1))
       IN  IF hi >= Huge \div 256 THEN Huge ELSE hi * 256 + b[Len(b)]

\* bytes comparison: lexicographic on the raw bytes
RECURSIVE BytesLess(_, _)
BytesLess(a, b) ==
  IF b = <<>> THEN FALSE
  ELSE IF a = <<>> THEN TRUE
  ELSE IF a[1] # b[1] THEN a[1] < b[1]
  ELSE BytesLess(Tail(a), Tail(b))

BytesLE(a, b) == a = b \/ BytesLess(a, b)

(***************************************************************************)
(* msgpack, the part the program uses: packb(..., use_bin_type=True) of a  *)
(* tuple/list, bytes (bin 8), None, bool and a non-negative int;           *)
(* unpackb(..., raw=False).  A decoding result is [ok, val, next]; ok is   *)
(* FALSE where unpackb raises.                                             *)
(***************************************************************************)
PackBin(b) == <<196, Len(b)>> \o b
PackNil == <<192>>
PackBool(t) == IF t THEN <<195>> ELSE <<194>>
PackInt(n) ==
  IF n < 128 THEN <<n>>
  ELSE IF n < 256 THEN <<204, n>>
  ELSE <<205>> \o ToBE(n, 2)
PackArrayHdr(n) == IF n < 16 THEN <<144 + n>> ELSE <<220>> \o ToBE(n, 2)

Fail == [ok |-> FALSE, val |-> <<>>, next |-> 0]

\* the bin 8 object at 1-based position p of blob
UnpackBin(blob, p) ==
  IF p + 1 > Len(blob) \/ blob[p] # 196 THEN Fail
  ELSE LET n == blob[p + 1]
       IN  IF p + 1 + n > Len(blob) THEN Fail
           ELSE [ok |-> TRUE, val |-> SubSeq(blob, p + 2, p + 1 + n), next |-> p + 2 + n]

\* None or bytes
UnpackOptBin(blob, p) ==
  IF p > Len(blob) THEN Fail
  ELSE IF blob[p] = 192 THEN [ok |-> TRUE, val |-> None, next |-> p + 1]
  ELSE LET u == UnpackBin(blob, p)
       IN  IF u.ok THEN [ok |-> TRUE, val |-> Some(u.val), next |-> u.next] ELSE Fail

UnpackBool(blob, p) ==
  IF p > Len(blob) \/ blob[p] \notin {194, 195} THEN Fail
  ELSE [ok |-> TRUE, val |-> (blob[p] = 195), next |-> p + 1]

UnpackInt(blob, p) ==
  IF p > Len(blob) THEN Fail
  ELSE IF blob[p] < 128 THEN [ok |-> TRUE, val |-> blob[p], next |-> p + 1]
  ELSE IF blob[p] = 204 /\ p + 1 <= Len(blob)
       THEN [ok |-> TRUE, val |-> blob[p + 1], next |-> p + 2]
  ELSE IF blob[p] = 205 /\ p + 2 <= Len(blob)
       THEN [ok |-> TRUE, val |-> FromBE(SubSeq(blob, p + 1, p + 2)), next |-> p + 3]
  ELSE Fail

UnpackArrayHdr(blob, p) ==
  IF p > Len(blob) THEN Fail
  ELSE IF blob[p] >= 144 /\ blob[p] < 160
       THEN [ok |-> TRUE, val |-> blob[p] - 144, next |-> p + 1]
  ELSE IF blob[p] = 220 /\ p + 2 <= Len(blob)
       THEN [ok |-> TRUE, val |-> FromBE(SubSeq(blob, p + 1, p + 2)), next |-> p + 3]
  ELSE Fail

(***************************************************************************)
(* wal.py                                                                  *)
(***************************************************************************)
\* msgpack.packb((key, value, tombstone), use_bin_type=True)
PackRecord(key, value, tombstone) ==
  PackArrayHdr(3) \o PackBin(key)
    \o (IF value = None THEN PackNil ELSE PackBin(value[1]))
    \o PackBool(tombstone)

\* key, value, tombstone = msgpack.unpackb(blob, raw=False)
UnpackRecord(blob) ==
  LET h == UnpackArrayHdr(blob, 1) IN
  IF ~h.ok \/ h.val # 3 THEN Fail ELSE
  LET k == UnpackBin(blob, h.next) IN
  IF ~k.ok THEN Fail ELSE
  LET v == UnpackOptBin(blob, k.next) IN
  IF ~v.ok THEN Fail ELSE
  LET t == UnpackBool(blob, v.next) IN
  IF ~t.ok \/ t.next # Len(blob) + 1 THEN Fail
  ELSE [ok |-> TRUE, val |-> <<k.val, v.val, t.val>>, next |-> t.next]

\* a frame whose length field counts the four bytes of the field as well
WAL_frame_lengthWithHeader(key, value, tombstone) ==
  LET rec == PackRecord(key, value, tombstone)
  IN  ToBE(Len(rec) + 4, 4) \o rec

\* the bytes WAL.append writes: a 4-byte big-endian length, then the payload
WAL_frame(key, value, tombstone) ==
  LET rec == PackRecord(key, value, tombstone)
  IN  ToBE(Len(rec), 4) \o rec

\* WAL.replay: [ok, records]; ok is FALSE where replay raises
RECURSIVE ReplayFrom(_, _, _)
ReplayFrom(file, pos, records) ==
  LET nbytes == Read(file, pos, 4) IN
  IF nbytes = <<>> THEN [ok |-> TRUE, records |-> records]
  ELSE LET length == FromBE(nbytes)
           blob == Read(file, pos + Len(nbytes), length)
           u == UnpackRecord(blob)
       IN  IF ~u.ok THEN [ok |-> FALSE, records |-> <<>>]
           ELSE ReplayFrom(file, pos + Len(nbytes) + Len(blob), Append(records, u.val))

WAL_replay(file) == ReplayFrom(file, 0, <<>>)

(***************************************************************************)
(* bloom.py.  blake2b is modelled as an arbitrary fixed function: hseed    *)
(* gives, for every key, the two 64-bit halves (a, b) of its digest.  The  *)
(* bit array _bits is the set of the positions of its 1 bits; to_bytes and *)
(* from_bytes convert it to and from the bytes of the file.                *)
(***************************************************************************)
VARIABLE hseed
\* db.py's _MEMTABLE_LIMIT, a constant of each behaviour
VARIABLE MEMTABLE_LIMIT

\* the state of SpecBloom, of SpecMerge, of SpecStrategy, of SpecWriters, of SpecSST, of SpecWAL and of the engine (Spec), described where
\* their actions are defined
VARIABLES bloom, bloomAdded, bloomTrips
bloomVars == <<bloom, bloomAdded, bloomTrips>>
VARIABLES mergeIn, mergeOut
mergeVars == <<mergeIn, mergeOut>>
VARIABLES levels, stratFiles, compacted
stratVars == <<levels, stratFiles, compacted>>
VARIABLES tasks, order
VARIABLE tier
VARIABLE skip
taskVars == <<tasks, order>>
VARIABLES sstItems, sstPhase, sstFile, sst, sstGet, sstScan
sstVars == <<sstItems, sstPhase, sstFile, sst, sstGet, sstScan>>
VARIABLES walSeg, walLog, walTorn, walOut
walVars == <<walSeg, walLog, walTorn, walOut>>
VARIABLES sstFiles, walFiles, mem, sstables, wal, lock, background, wr, rd,
          last, sess, hist, opened
dbVars == <<sstFiles, walFiles, mem, sstables, wal, lock, background, wr, rd,
            last, sess, hist, opened>>
notTask == <<hseed, MEMTABLE_LIMIT, tier, skip, bloomVars, mergeVars, stratVars, sstVars, walVars>>
notDb == <<hseed, MEMTABLE_LIMIT, tier, skip, bloomVars, mergeVars, stratVars, taskVars, sstVars, walVars>>
vars == <<hseed, MEMTABLE_LIMIT, tier, skip, bloomVars, mergeVars, stratVars, taskVars, sstVars, walVars, dbVars>>

\* k = max(1, int((m / n) * ln 2)) with m / n = -ln(0.01) / (ln 2)^2
BloomK == 6

\* BloomFilter(m, k): self._bits = bytearray((m + 7) // 8), all zero
BloomFilter_init(m, k) == [m |-> m, k |-> k, bits |-> {}]

\* BloomFilter.from_capacity(n), n >= 1 (n = 0 divides by zero):
\* m = int(-n * ln(0.01) / (ln 2)^2) = int(n * 9.585058...)
BloomFilter_from_capacity(n) ==
  [m |-> (n * 9585058) \div 1000000, k |-> BloomK, bits |-> {}]

BloomFilter_hashes(bf, item) ==
  {(hseed[item].a + i * hseed[item].b) % bf.m : i \in 0 .. bf.k - 1}

BloomFilter_add(bf, item) ==
  [bf EXCEPT !.bits = @ \cup BloomFilter_hashes(bf, item)]

BloomFilter_contains(bf, item) == BloomFilter_hashes(bf, item) \subseteq bf.bits

RECURSIVE BitsToByte(_, _, _)
BitsToByte(bits, j, i) ==
  IF i > 7 THEN 0
  ELSE (IF 8 * j + i \in bits THEN 2 ^ i ELSE 0) + BitsToByte(bits, j, i + 1)

BloomFilter_to_bytes(bf) ==
  ToBE(bf.k, 4) \o ToBE(bf.m, 4)
    \o [j \in 1 .. (bf.m + 7) \div 8 |-> BitsToByte(bf.bits, j - 1, 0)]

\* a from_bytes that takes the bits of a byte from the high end
BloomFilter_from_bytes_highBitFirst(blob) ==
  LET rest == SubSeq(blob, 9, Len(blob))
  IN  [m |-> FromBE(SubSeq(blob, 5, 8)),
       k |-> FromBE(SubSeq(blob, 1, 4)),
       bits |-> {8 * (j - 1) + (7 - i) : <<j, i>> \in
                   {x \in (1 .. Len(rest)) \X (0 .. 7) :
                      (rest[x[1]] \div (2 ^ x[2])) % 2 = 1}}]

BloomFilter_from_bytes(blob) ==
  LET rest == SubSeq(blob, 9, Len(blob))
  IN  [m |-> FromBE(SubSeq(blob, 5, 8)),
       k |-> FromBE(SubSeq(blob, 1, 4)),
       bits |-> {8 * (j - 1) + i : <<j, i>> \in
                   {x \in (1 .. Len(rest)) \X (0 .. 7) :
                      (rest[x[1]] \div (2 ^ x[2])) % 2 = 1}}]

(***************************************************************************)
(* sstable.py.  A handle is [path, index, bloom, data_end]; the index is a *)
(* sequence of <<key, offset>>.  A result of get is [ok, val]: val is the  *)
(* optional returned, ok is FALSE where the call raises.                   *)
(***************************************************************************)
Ret(v) == [ok |-> TRUE, val |-> v]
Raise == [ok |-> FALSE, val |-> None]

\* _RECORD_HDR.pack(len(k), len(kv), tomb) + k + kv, with kv = v or b""
SSTable_record(k, v, tomb) ==
  LET kv == IF v = None THEN <<>> ELSE v[1]
  IN  ToBE(Len(k), 4) \o ToBE(Len(kv), 4) \o <<IF tomb THEN 1 ELSE 0>> \o k \o kv

\* a create that adds every record to the index
RECURSIVE CreateLoop_indexEveryRecord(_, _, _)
CreateLoop_indexEveryRecord(items, i, st) ==
  IF i > Len(items) THEN st
  ELSE LET k == items[i][1]
           record == SSTable_record(k, items[i][2], items[i][3])
       IN  CreateLoop_indexEveryRecord(items, i + 1,
             [offset |-> st.offset + Len(record),
              index  |-> Append(st.index, <<k, st.offset>>),
              bf     |-> BloomFilter_add(st.bf, k),
              data   |-> st.data \o record])

\* the loop of SSTable.create over enumerate(items)
RECURSIVE CreateLoop(_, _, _)
CreateLoop(items, i, st) ==
  IF i > Len(items) THEN st
  ELSE LET k == items[i][1]
           record == SSTable_record(k, items[i][2], items[i][3])
       IN  CreateLoop(items, i + 1,
             [offset |-> st.offset + Len(record),
              index  |-> IF (i - 1) % BLOCK = 0
                         THEN Append(st.index, <<k, st.offset>>) ELSE st.index,
              bf     |-> BloomFilter_add(st.bf, k),
              data   |-> st.data \o record])

\* msgpack.packb(index, use_bin_type=True)
RECURSIVE PackIndexEntries(_)
PackIndexEntries(index) ==
  IF index = <<>> THEN <<>>
  ELSE PackArrayHdr(2) \o PackBin(index[1][1]) \o PackInt(index[1][2])
         \o PackIndexEntries(Tail(index))

PackIndex(index) == PackArrayHdr(Len(index)) \o PackIndexEntries(index)

\* msgpack.unpackb(blob_index, raw=False)
RECURSIVE UnpackIndexEntries(_, _, _, _)
UnpackIndexEntries(blob, p, n, acc) ==
  IF n = 0 THEN acc
  ELSE LET h == UnpackArrayHdr(blob, p)
           k == UnpackBin(blob, h.next)
           o == UnpackInt(blob, k.next)
       IN  UnpackIndexEntries(blob, o.next, n - 1, Append(acc, <<k.val, o.val>>))

UnpackIndex(blob) ==
  LET h == UnpackArrayHdr(blob, 1)
  IN  UnpackIndexEntries(blob, h.next, h.val, <<>>)

\* SSTable.create(path, items) raises (from_capacity divides by len(items))
\* when items is empty
SSTable_create_ok(items) == Len(items) > 0

\* SSTable.create(path, items): the file written and the handle returned
SSTable_create(path, items) ==
  LET st == CreateLoop(items, 1,
              [offset |-> 0, index |-> <<>>,
               bf |-> BloomFilter_from_capacity(Len(items)), data |-> <<>>])
      index_off == st.offset
      blob_index == PackIndex(st.index)
      bloom_off == index_off + Len(blob_index)
      blob_bloom == BloomFilter_to_bytes(st.bf)
  IN  [file |-> st.data \o blob_index \o blob_bloom
                  \o ToBE(index_off, 8) \o ToBE(bloom_off, 8),
       obj  |-> [path |-> path, index |-> st.index, bloom |-> st.bf,
                 data_end |-> index_off]]

\* SSTable(path) then SSTable.open(): _data_end keeps the constructor's 0
SSTable_open(path, file) ==
  LET size == Len(file)
      footer == Read(file, size - FOOTER_size, FOOTER_size)
      index_off == FromBE(SubSeq(footer, 1, 8))
      bloom_off == FromBE(SubSeq(footer, 9, 16))
  IN  [path |-> path,
       index |-> UnpackIndex(Read(file, index_off, bloom_off - index_off)),
       bloom |-> BloomFilter_from_bytes(
                   Read(file, bloom_off, size - FOOTER_size - bloom_off)),
       data_end |-> 0]

\* a binary search that passes a block only when its first key is below key
RECURSIVE BSearch_strict(_, _, _, _)
BSearch_strict(index, key, lo, hi) ==
  IF ~(lo < hi) THEN lo
  ELSE LET mid == (lo + hi) \div 2
       IN  IF BytesLess(index[mid + 1][1], key)
           THEN BSearch_strict(index, key, mid + 1, hi)
           ELSE BSearch_strict(index, key, lo, mid)

\* the binary search of _get_sync; lo and hi are Python's 0-based bounds
RECURSIVE BSearch(_, _, _, _)
BSearch(index, key, lo, hi) ==
  IF ~(lo < hi) THEN lo
  ELSE LET mid == (lo + hi) \div 2
       IN  IF BytesLE(index[mid + 1][1], key)
           THEN BSearch(index, key, mid + 1, hi)
           ELSE BSearch(index, key, lo, mid)

\* a record loop that returns `v or None`: an empty value read as absent
RECURSIVE GetScan_emptyIsAbsent(_, _, _, _)
GetScan_emptyIsAbsent(file, pos, limit, key) ==
  IF ~(pos < limit) THEN Ret(None)
  ELSE LET hdr == Read(file, pos, RECORD_HDR_size) IN
       IF hdr = <<>> THEN Ret(None)
       ELSE IF Len(hdr) < RECORD_HDR_size THEN Raise
       ELSE LET klen == FromBE(SubSeq(hdr, 1, 4))
                vlen == FromBE(SubSeq(hdr, 5, 8))
                tomb == hdr[9]
                k == Read(file, pos + RECORD_HDR_size, klen)
                v == Read(file, pos + RECORD_HDR_size + Len(k), vlen)
            IN  IF k = key
                THEN (IF tomb # 0 \/ v = <<>> THEN Ret(None) ELSE Ret(Some(v)))
                ELSE GetScan_emptyIsAbsent(file, pos + RECORD_HDR_size + Len(k) + Len(v),
                                           limit, key)

\* the record loop of _get_sync, from file position pos up to limit
RECURSIVE GetScan(_, _, _, _)
GetScan(file, pos, limit, key) ==
  IF ~(pos < limit) THEN Ret(None)
  ELSE LET hdr == Read(file, pos, RECORD_HDR_size) IN
       IF hdr = <<>> THEN Ret(None)
       ELSE IF Len(hdr) < RECORD_HDR_size THEN Raise
       ELSE LET klen == FromBE(SubSeq(hdr, 1, 4))
                vlen == FromBE(SubSeq(hdr, 5, 8))
                tomb == hdr[9]
                k == Read(file, pos + RECORD_HDR_size, klen)
                v == Read(file, pos + RECORD_HDR_size + Len(k), vlen)
            IN  IF k = key THEN (IF tomb # 0 THEN Ret(None) ELSE Ret(Some(v)))
                ELSE GetScan(file, pos + RECORD_HDR_size + Len(k) + Len(v), limit, key)

\* the bound of the record loop of _get_sync for the block found at lo:
\* `self._index[lo][1] if lo < len(self._index)
\*    else self.path.stat().st_size - _FOOTER.size`
ScanEnd(obj, file, lo) ==
  IF lo < Len(obj.index) THEN obj.index[lo + 1][2] ELSE Len(file) - FOOTER_size

\* SSTable._get_sync(key) of the handle obj on the file now at obj.path
SSTable_get_sync(obj, file, key) ==
  IF ~BloomFilter_contains(obj.bloom, key) THEN Ret(None)
  ELSE LET lo == BSearch(obj.index, key, 0, Len(obj.index))
           start_off == IF lo # 0 THEN obj.index[lo][2] ELSE 0
       IN  GetScan(file, start_off, ScanEnd(obj, file, lo), key)

\* the loop of SSTable.scan: the records yielded, from file position pos
RECURSIVE ScanLoop(_, _, _, _)
ScanLoop(obj, file, pos, acc) ==
  LET size == Len(file) - FOOTER_size IN
  IF ~(pos < size) THEN acc
  \* `if pos >= self._index[0][1] if self._index else size: break`
  ELSE IF (IF obj.index # <<>> THEN pos >= obj.index[1][2] ELSE size # 0) THEN acc
  ELSE LET hdr == Read(file, pos, RECORD_HDR_size) IN
       IF hdr = <<>> THEN acc
       ELSE LET klen == FromBE(SubSeq(hdr, 1, 4))
                vlen == FromBE(SubSeq(hdr, 5, 8))
                tomb == hdr[9] # 0
                k == Read(file, pos + RECORD_HDR_size, klen)
                v == IF vlen # 0 THEN Read(file, pos + RECORD_HDR_size + Len(k), vlen)
                     ELSE <<>>
            IN  ScanLoop(obj, file, pos + RECORD_HDR_size + Len(k) + Len(v),
                         Append(acc, <<k, IF tomb THEN None ELSE Some(v), tomb>>))

SSTable_scan(obj, file) == ScanLoop(obj, file, 0, <<>>)

(***************************************************************************)
(* Keys and values of the model                                            *)
(***************************************************************************)
Keys == {<<1>>, <<1, 2>>, <<2>>, <<3>>}
Values == {<<>>, <<7>>}
\* value (or None) and tombstone flag of an SSTable item or memtable entry
Payloads == {<<None, TRUE>>} \cup {<<Some(v), FALSE>> : v \in Values}

\* Three digests: every key the same one; one probe position per key; and
\* probe positions spread by the key's bytes.
HashChoices ==
  { [key \in Keys |-> [a |-> 0, b |-> 1]],
    [key \in Keys |-> [a |-> 2 * key[1] + Len(key), b |-> 0]],
    [key \in Keys |-> [a |-> 5 * key[1] + Len(key), b |-> 3 * Len(key)]] }

RECURSIVE SortedSeqs(_)
\* the strictly ascending sequences of keys of length n
SortedSeqs(n) ==
  IF n = 0 THEN {<<>>}
  ELSE {Append(s, k) : <<s, k>> \in
          {x \in SortedSeqs(n - 1) \X Keys :
             x[1] = <<>> \/ BytesLess(x[1][Len(x[1])], x[2])}}

\* sorted, deduplicated item lists of n items
ItemLists(n) ==
  UNION {{[i \in 1 .. n |-> <<ks[i], ps[i][1], ps[i][2]>>] : ps \in [1 .. n -> Payloads]}
           : ks \in SortedSeqs(n)}

\* the path sst_{n:06d}.sst of the data directory, and L1_merged_{n}.sst
SstPath(n) == [lvl |-> 0, n |-> n]
MergedPath(n) == [lvl |-> 1, n |-> n]

(***************************************************************************)
(* compaction.py: LeveledCompaction._merge_iterators, which TieredCompaction *)
(* calls too.  A stream is the sequence of records an iterator yields; an  *)
(* iterator is named by its position in the list given to the merge, and   *)
(* pos[it] is the number of records taken from it.  A heap entry is the    *)
(* tuple (item[0], item, it).  heapq orders entries with <, which on       *)
(* tuples compares the first pair of elements that are not equal: equal    *)
(* keys are ordered by the items (k, v, tomb), where None < bytes raises   *)
(* TypeError, and equal items by the iterators, which raises TypeError.    *)
(* A comparison is "T", "F" or "E" (raises).                               *)
(***************************************************************************)
\* v < w for the second elements of two items: None or bytes
ValueLess(v, w) ==
  IF v = None \/ w = None THEN "E"
  ELSE IF BytesLess(v[1], w[1]) THEN "T" ELSE "F"

\* x < y for two items (k, v, tomb)
ItemLess(x, y) ==
  IF x[1] # y[1] THEN (IF BytesLess(x[1], y[1]) THEN "T" ELSE "F")
  ELSE IF x[2] # y[2] THEN ValueLess(x[2], y[2])
  ELSE IF x[3] # y[3] THEN (IF ~x[3] /\ y[3] THEN "T" ELSE "F")
  ELSE "F"

\* a < b for two heap entries (key, item, it)
EntryLess(a, b) ==
  IF a.key # b.key THEN (IF BytesLess(a.key, b.key) THEN "T" ELSE "F")
  ELSE IF a.item # b.item THEN ItemLess(a.item, b.item)
  ELSE IF a.it # b.it THEN "E"
  ELSE "F"

\* heapq._siftdown(heap, startpos, pos), positions counted from 1
RECURSIVE SiftDown(_, _, _, _)
SiftDown(heap, startpos, pos, newitem) ==
  IF pos > startpos
  THEN LET parentpos == pos \div 2
           parent == heap[parentpos]
           c == EntryLess(newitem, parent)
       IN  IF c = "E" THEN Raise
           ELSE IF c = "T"
           THEN SiftDown([heap EXCEPT ![pos] = parent], startpos, parentpos, newitem)
           ELSE Ret([heap EXCEPT ![pos] = newitem])
  ELSE Ret([heap EXCEPT ![pos] = newitem])

\* heapq._siftup(heap, pos): the smaller child moves up until a leaf is hit
RECURSIVE SiftUp(_, _, _, _)
SiftUp(heap, startpos, pos, newitem) ==
  LET childpos == 2 * pos
      rightpos == childpos + 1
      c == IF rightpos <= Len(heap) THEN EntryLess(heap[childpos], heap[rightpos])
           ELSE "T"
      child == IF c = "T" THEN childpos ELSE rightpos
  IN  IF childpos <= Len(heap)
      THEN IF c = "E" THEN Raise
           ELSE SiftUp([heap EXCEPT ![pos] = heap[child]], startpos, child, newitem)
      ELSE SiftDown(heap, startpos, pos, newitem)

\* heapq.heappush(heap, item)
HeapPush(heap, item) == SiftDown(Append(heap, item), 1, Len(heap) + 1, item)

\* heapq.heappop(heap): val is the entry returned and the heap left
HeapPop(heap) ==
  LET lastelt == heap[Len(heap)]
      rest == SubSeq(heap, 1, Len(heap) - 1)
  IN  IF rest = <<>> THEN Ret([item |-> lastelt, heap |-> <<>>])
      ELSE LET h == SiftUp(rest, 1, 1, lastelt)
           IN  IF h.ok THEN Ret([item |-> rest[1], heap |-> h.val]) ELSE Raise

\* item = next(it); heapq.heappush(heap, (item[0], item, it)), or nothing
\* at StopIteration: val is the heap and the positions of the iterators
PushNext(streams, heap, pos, it) ==
  IF pos[it] >= Len(streams[it]) THEN Ret([heap |-> heap, pos |-> pos])
  ELSE LET item == streams[it][pos[it] + 1]
           h == HeapPush(heap, [key |-> item[1], item |-> item, it |-> it])
       IN  IF h.ok THEN Ret([heap |-> h.val, pos |-> [pos EXCEPT ![it] = @ + 1]])
           ELSE Raise

\* for it in iterators: the first item of each iterator is pushed
RECURSIVE MergeFill(_, _, _, _)
MergeFill(streams, heap, pos, it) ==
  IF it > Len(streams) THEN Ret([heap |-> heap, pos |-> pos])
  ELSE LET r == PushNext(streams, heap, pos, it)
       IN  IF r.ok THEN MergeFill(streams, r.val.heap, r.val.pos, it + 1) ELSE Raise

\* while heap: pop, yield unless the key is last_key, push the next item
RECURSIVE MergeLoop(_, _, _, _, _)
MergeLoop(streams, heap, pos, last_key, out) ==
  IF heap = <<>> THEN Ret(out)
  ELSE LET p == HeapPop(heap)
       IN  IF ~p.ok THEN Raise
           ELSE LET e == p.val.item
                    fresh == Some(e.key) # last_key
                    r == PushNext(streams, p.val.heap, pos, e.it)
                IN  IF ~r.ok THEN Raise
                    ELSE MergeLoop(streams, r.val.heap, r.val.pos,
                                   IF fresh THEN Some(e.key) ELSE last_key,
                                   IF fresh THEN Append(out, e.item) ELSE out)

\* list(self._merge_iterators(iterators)): the records, or TypeError
LeveledCompaction_merge_iterators(streams) ==
  LET f == MergeFill(streams, <<>>, [it \in 1 .. Len(streams) |-> 0], 1)
  IN  IF f.ok THEN MergeLoop(streams, f.val.heap, f.val.pos, None, <<>>) ELSE Raise

(***************************************************************************)
(* SpecMerge: a list of streams, each sorted by key without duplicates, is *)
(* given to the merge; the first stream has the newest priority.  mergeOut *)
(* is the result of list(merged).                                          *)
(***************************************************************************)
MaxStreams == 3
MaxStreamLen == 2
MergeKeys == {<<1>>, <<2>>}

MergeStreams ==
  {s \in UNION {ItemLists(n) : n \in 0 .. MaxStreamLen} :
     \A i \in 1 .. Len(s) : s[i][1] \in MergeKeys}

NoMerge == [done |-> FALSE, res |-> Raise]

MergeIdle == mergeIn = <<>> /\ mergeOut = NoMerge

Merge ==
  /\ ~mergeOut.done
  /\ mergeOut' = [done |-> TRUE, res |-> LeveledCompaction_merge_iterators(mergeIn)]
  /\ UNCHANGED <<mergeIn, hseed, MEMTABLE_LIMIT, tier, skip, taskVars, stratVars, bloomVars, sstVars, walVars, dbVars>>

NoTable == [path |-> SstPath(0), index |-> <<>>,
            bloom |-> [m |-> 0, k |-> 0, bits |-> {}], data_end |-> 0]
NoGet == [done |-> FALSE, key |-> <<>>, res |-> Ret(None)]
NoScan == [done |-> FALSE, records |-> <<>>]

(***************************************************************************)
(* SpecStrategy: one LeveledCompaction object.  levels[i + 1] is the list  *)
(* self.levels[i].tables of table handles, stratFiles the table files of   *)
(* the directory, and compacted the last call of compact: whether it has   *)
(* ended, whether it returned, its input tables and the table returned.    *)
(* A table is created and given to add_table; when add_table returns the   *)
(* tables of L0, they are given to compact with level 0.                   *)
(***************************************************************************)
L0_TRIGGER == 4

NoCompact == [done |-> FALSE, ok |-> FALSE, inputs |-> <<>>, out |-> NoTable]

StratIdle == levels = <<>> /\ stratFiles = <<>> /\ compacted = NoCompact

\* self.levels after add_table(table)
LeveledCompaction_add_table(lv, table) ==
  LET ls == IF lv = <<>> THEN << <<>> >> ELSE lv
  IN  [ls EXCEPT ![1] = Append(@, table)]

\* a trigger that fires as soon as L0 holds the trigger count of tables
LeveledCompaction_add_table_atTrigger(lv) ==
  IF Len(lv[1]) >= L0_TRIGGER THEN lv[1] ELSE <<>>

\* what add_table returns, lv being self.levels after the append:
\* `if len(self.levels[0].tables) > 4: return self.levels[0].tables`, else []
LeveledCompaction_add_table_returns(lv) ==
  IF Len(lv[1]) > L0_TRIGGER THEN lv[1] ELSE <<>>

\* while len(self.levels) <= level + 1: self.levels.append(...)
RECURSIVE EnsureLevels(_, _)
EnsureLevels(lv, level) ==
  IF Len(lv) <= level + 1 THEN EnsureLevels(Append(lv, <<>>), level) ELSE lv

\* compact(tables, level): the result of SSTable.create(new_path, list(merged))
LeveledCompaction_compact(lv, files, tables, level) ==
  LET iterators == [i \in 1 .. Len(tables) |-> SSTable_scan(tables[i], files[tables[i].path])]
      merged == LeveledCompaction_merge_iterators(iterators)
      new_path == MergedPath(Len(lv[level + 2]))
  IN  IF merged.ok /\ SSTable_create_ok(merged.val)
      THEN Ret(SSTable_create(new_path, merged.val))
      ELSE Raise

\* table = await SSTable.create(path, items); await strategy.add_table(table)
StratAddTable(items) ==
  /\ ~compacted.done
  /\ IF levels = <<>> THEN TRUE ELSE LeveledCompaction_add_table_returns(levels) = <<>>
  /\ LET c == SSTable_create(SstPath(Cardinality(DOMAIN stratFiles)), items)
     IN  /\ stratFiles' = [q \in DOMAIN stratFiles \cup {c.obj.path} |->
                             IF q = c.obj.path THEN c.file ELSE stratFiles[q]]
         /\ levels' = LeveledCompaction_add_table(levels, c.obj)
  /\ UNCHANGED <<compacted, hseed, MEMTABLE_LIMIT, tier, skip, taskVars, bloomVars, mergeVars, sstVars, walVars, dbVars>>

\* add_table returned self.levels[0].tables: await strategy.compact(tables, 0)
StratCompact ==
  /\ ~compacted.done
  /\ IF levels = <<>> THEN FALSE ELSE LeveledCompaction_add_table_returns(levels) # <<>>
  /\ LET lv == EnsureLevels(levels, 0)
         r == LeveledCompaction_compact(lv, stratFiles,
                                        LeveledCompaction_add_table_returns(levels), 0)
     IN  /\ levels' = lv
         /\ IF r.ok
            THEN /\ stratFiles' = [q \in DOMAIN stratFiles \cup {r.val.obj.path} |->
                                    IF q = r.val.obj.path THEN r.val.file ELSE stratFiles[q]]
                 /\ compacted' = [done |-> TRUE, ok |-> TRUE, inputs |-> levels[1],
                                  out |-> r.val.obj]
            ELSE /\ stratFiles' = stratFiles
                 /\ compacted' = [done |-> TRUE, ok |-> FALSE, inputs |-> levels[1],
                                  out |-> NoTable]
  /\ UNCHANGED <<hseed, MEMTABLE_LIMIT, tier, skip, taskVars, bloomVars, mergeVars, sstVars, walVars, dbVars>>


(***************************************************************************)
(* skiplist.py.  SpecSkip: one SkipList object.  skip.nodes is the heap of *)
(* _Node objects: node 1 is self._header, a forward pointer is the number  *)
(* of a node or 0 for None.  skip.level is self._level, skip.size is       *)
(* self._size, and skip.calls lists the set calls made, <<lvl, key,        *)
(* value>>, lvl being the height _random_level() drew (used by a call that *)
(* inserts a node).                                                        *)
(***************************************************************************)
MAX_LEVEL == 3
MaxSets == 4
\* the values set: None (what DB.delete sets) and a one-byte value
SkipValues == {None, Some(<<7>>)}

SkipNew ==
  [level |-> 1, size |-> 0, calls |-> <<>>,
   nodes |-> <<[key |-> <<>>, value |-> None, forward |-> [i \in 1 .. MAX_LEVEL |-> 0]]>>]

SkipIdle == skip = SkipNew

\* a search that also passes the node of the key itself
RECURSIVE SkipFind_passEqual(_, _, _, _)
SkipFind_passEqual(nodes, x, i, key) ==
  LET nxt == nodes[x].forward[i + 1] IN
  IF nxt = 0 THEN x
  ELSE IF BytesLE(nodes[nxt].key, key) THEN SkipFind_passEqual(nodes, nxt, i, key)
  ELSE x

\* `while (nxt := x.forward[i]) and nxt.key < key: x = nxt`, i counted from 0
RECURSIVE SkipFind(_, _, _, _)
SkipFind(nodes, x, i, key) ==
  LET nxt == nodes[x].forward[i + 1] IN
  IF nxt = 0 THEN x
  ELSE IF BytesLess(nodes[nxt].key, key) THEN SkipFind(nodes, nxt, i, key)
  ELSE x

\* `for i in reversed(range(self._level))`: the node reached and, for set,
\* the list update
RECURSIVE SkipSearch(_, _, _, _, _)
SkipSearch(nodes, x, i, key, update) ==
  IF i < 0 THEN [x |-> x, update |-> update]
  ELSE LET y == SkipFind(nodes, x, i, key)
       IN  SkipSearch(nodes, y, i - 1, key, [update EXCEPT ![i + 1] = y])

\* SkipList.set(key, value), lvl being the result of _random_level()
SkipListNodes_set(s, key, value, lvl) ==
  LET r == SkipSearch(s.nodes, 1, s.level - 1, key, [i \in 1 .. MAX_LEVEL |-> 1])
      x == s.nodes[r.x].forward[1]
      found == IF x = 0 THEN FALSE ELSE s.nodes[x].key = key
  IN  IF found
      THEN [s EXCEPT !.nodes[x].value = value]
      ELSE LET update == [i \in 1 .. MAX_LEVEL |->
                            IF i > s.level /\ i <= lvl THEN 1 ELSE r.update[i]]
               new == Len(s.nodes) + 1
               new_node == [key |-> key, value |-> value,
                            forward |-> [i \in 1 .. lvl |-> s.nodes[update[i]].forward[i]]]
               relinked(n) ==
                 [s.nodes[n] EXCEPT !.forward =
                    [i \in 1 .. Len(s.nodes[n].forward) |->
                       IF i <= lvl /\ update[i] = n THEN new ELSE s.nodes[n].forward[i]]]
           IN  [s EXCEPT !.level = IF lvl > s.level THEN lvl ELSE s.level,
                         !.size = s.size + 1,
                         !.nodes = [n \in 1 .. new |->
                                      IF n = new THEN new_node ELSE relinked(n)]]

\* SkipList.get(key)
SkipListNodes_get(s, key) ==
  LET r == SkipSearch(s.nodes, 1, s.level - 1, key, [i \in 1 .. MAX_LEVEL |-> 1])
      x == s.nodes[r.x].forward[1]
  IN  IF x = 0 THEN None
      ELSE IF s.nodes[x].key = key THEN s.nodes[x].value ELSE None

\* list(SkipList.__iter__()), from node x on
RECURSIVE SkipListNodes_iter(_, _)
SkipListNodes_iter(nodes, x) ==
  IF x = 0 THEN <<>>
  ELSE <<<<nodes[x].key, nodes[x].value>>>> \o SkipListNodes_iter(nodes, nodes[x].forward[1])

\* mem.set(key, value), _random_level() returning lvl
SkipSet(key, value, lvl) ==
  /\ Len(skip.calls) < MaxSets
  /\ skip' = [SkipListNodes_set(skip, key, value, lvl) EXCEPT
                !.calls = Append(skip.calls, <<lvl, key, value>>)]
  /\ UNCHANGED <<hseed, MEMTABLE_LIMIT, tier, taskVars, stratVars, bloomVars, mergeVars, sstVars, walVars, dbVars>>

(***************************************************************************)
(* SpecTiered: one TieredCompaction object built with base_level_size      *)
(* tier.base.  tier.tables is self.levels[0].tables, tier.files the table  *)
(* files of the directory, tier.ret the list the last add_table returned   *)
(* and tier.calls the number of add_table calls made.                      *)
(***************************************************************************)
MaxTierTables == 5
\* the constructor's base_level_size: smaller than one table file, smaller
\* than three, and the default 64 MB
TierBudgets == {32, 100, 64 * 1024 * 1024}

TierIdle == tier = [base |-> 0, files |-> <<>>, tables |-> <<>>, ret |-> <<>>, calls |-> 0]

RECURSIVE Level_size(_, _)
\* Level.size: sum(t.path.stat().st_size for t in self.tables)
Level_size(files, tables) ==
  IF tables = <<>> THEN 0 ELSE Len(files[tables[1].path]) + Level_size(files, Tail(tables))

\* TieredCompaction.add_table(table): self.levels[0].tables afterwards and the
\* list returned; the size limit of level 0 is base_level_size * 10 ** 0
TieredCompaction_add_table(base, files, tables, table) ==
  LET ts == Append(tables, table)
  IN  [tables |-> ts,
       ret |-> IF Level_size(files, ts) >= base THEN ts ELSE <<>>]

\* table = await SSTable.create(path, items); await strategy.add_table(table)
TierAddTable(items) ==
  /\ tier.calls < MaxTierTables
  /\ LET c == SSTable_create(SstPath(tier.calls), items)
         files == [q \in DOMAIN tier.files \cup {c.obj.path} |->
                     IF q = c.obj.path THEN c.file ELSE tier.files[q]]
         r == TieredCompaction_add_table(tier.base, files, tier.tables, c.obj)
     IN  tier' = [base |-> tier.base, files |-> files, tables |-> r.tables,
                  ret |-> r.ret, calls |-> tier.calls + 1]
  /\ UNCHANGED <<hseed, MEMTABLE_LIMIT, skip, taskVars, stratVars, bloomVars, mergeVars, sstVars, walVars, dbVars>>

(***************************************************************************)
(* SpecBloom: one Bloom filter.  bloom is the filter, bloomAdded the keys  *)
(* added to it, bloomTrips the number of to_bytes / from_bytes round trips *)
(* it went through.  The filter is made by BloomFilter(m, k), by           *)
(* from_capacity(n), or by SSTable.create and SSTable.open for an item     *)
(* list.                                                                   *)
(***************************************************************************)
\* bits of a filter made by BloomFilter(m, k), and round trips of a filter
MaxBloomBits == 3
MaxBloomTrips == 2

BloomIdle ==
  /\ bloom = BloomFilter_init(1, 1) /\ bloomAdded = {} /\ bloomTrips = 0

\* bf.add(key)
BloomAdd(key) ==
  /\ bloom' = BloomFilter_add(bloom, key)
  /\ bloomAdded' = bloomAdded \cup {key}
  /\ UNCHANGED <<bloomTrips, hseed, MEMTABLE_LIMIT, tier, skip, taskVars, stratVars, mergeVars, sstVars, walVars, dbVars>>

\* bf = BloomFilter.from_bytes(bf.to_bytes())
BloomRoundTrip ==
  /\ bloomTrips < MaxBloomTrips
  /\ bloom' = BloomFilter_from_bytes(BloomFilter_to_bytes(bloom))
  /\ bloomTrips' = bloomTrips + 1
  /\ UNCHANGED <<bloomAdded, hseed, MEMTABLE_LIMIT, tier, skip, taskVars, stratVars, mergeVars, sstVars, walVars, dbVars>>

\* await SSTable.create(path, items); table = SSTable(path);
\* await table.open(): the filter of the table, read back from its file
BloomOfTable(items) ==
  /\ bloomAdded = {} /\ bloomTrips = 0
  /\ bloom' = SSTable_open(SstPath(0), SSTable_create(SstPath(0), items).file).bloom
  /\ bloomAdded' = {items[i][1] : i \in 1 .. Len(items)}
  /\ bloomTrips' = 1
  /\ UNCHANGED <<hseed, MEMTABLE_LIMIT, tier, skip, taskVars, stratVars, mergeVars, sstVars, walVars, dbVars>>

(***************************************************************************)
(* SpecSST: one SSTable is created from an item list, loaded again with    *)
(* open, looked up and scanned.                                            *)
(***************************************************************************)

SstIdle ==
  /\ sstItems = <<>> /\ sstPhase = "off" /\ sstFile = <<>> /\ sst = NoTable
  /\ sstGet = NoGet /\ sstScan = NoScan

\* table = await SSTable.create(path, items)
SstCreate ==
  /\ sstPhase = "init"
  /\ IF SSTable_create_ok(sstItems)
     THEN LET c == SSTable_create(SstPath(0), sstItems)
          IN  sstFile' = c.file /\ sst' = c.obj /\ sstPhase' = "created"
     ELSE sstPhase' = "raised" /\ UNCHANGED <<sstFile, sst>>
  /\ UNCHANGED <<sstItems, sstGet, sstScan, hseed, MEMTABLE_LIMIT, tier, skip, taskVars, stratVars, mergeVars, bloomVars, walVars, dbVars>>

\* table = SSTable(path); await table.open()
SstOpen ==
  /\ sstPhase = "created"
  /\ sst' = SSTable_open(SstPath(0), sstFile)
  /\ sstPhase' = "opened"
  /\ UNCHANGED <<sstItems, sstFile, sstGet, sstScan, hseed, MEMTABLE_LIMIT, tier, skip, taskVars, stratVars, mergeVars, bloomVars, walVars, dbVars>>

\* await table.get(key)
SstGet(key) ==
  /\ sstPhase \in {"created", "opened"}
  /\ sstGet' = [done |-> TRUE, key |-> key, res |-> SSTable_get_sync(sst, sstFile, key)]
  /\ UNCHANGED <<sstItems, sstPhase, sstFile, sst, sstScan, hseed, MEMTABLE_LIMIT, tier, skip, taskVars, stratVars, mergeVars, bloomVars, walVars, dbVars>>

\* list(table.scan())
SstScan ==
  /\ sstPhase \in {"created", "opened"}
  /\ sstScan' = [done |-> TRUE, records |-> SSTable_scan(sst, sstFile)]
  /\ UNCHANGED <<sstItems, sstPhase, sstFile, sst, sstGet, hseed, MEMTABLE_LIMIT, tier, skip, taskVars, stratVars, mergeVars, bloomVars, walVars, dbVars>>

(***************************************************************************)
(* SpecWAL: records are appended to one WAL segment, the last append may   *)
(* be cut short (a torn tail), and the segment is replayed.                *)
(***************************************************************************)

NoReplay == [done |-> FALSE, res |-> [ok |-> TRUE, records |-> <<>>]]

WalIdle == walSeg = <<>> /\ walLog = <<>> /\ walTorn = "off" /\ walOut = NoReplay

\* the records DB.set and DB.delete append, and two more that append accepts
WalRecords ==
  { <<(<<1>>), Some(<<>>), FALSE>>, <<(<<1>>), Some(<<7>>), FALSE>>,
    <<(<<1>>), None, TRUE>>, <<(<<1, 2>>), None, TRUE>>,
    <<(<<1, 2>>), None, FALSE>>, <<(<<1, 2>>), Some(<<7>>), TRUE>> }

\* await wal.append(key, value, tombstone): written and drained
WalAppend(rec) ==
  /\ walTorn = "no"
  /\ Len(walLog) < MaxWalRecords
  /\ walSeg' = walSeg \o WAL_frame(rec[1], rec[2], rec[3])
  /\ walLog' = Append(walLog, rec)
  /\ walOut' = NoReplay
  /\ UNCHANGED <<walTorn, hseed, MEMTABLE_LIMIT, tier, skip, taskVars, stratVars, mergeVars, bloomVars, sstVars, dbVars>>

\* the process dies while the frame of an append is written: only the first
\* n bytes of it reach the file
WalTornAppend(rec, n) ==
  /\ walTorn = "no"
  /\ n < Len(WAL_frame(rec[1], rec[2], rec[3]))
  /\ walSeg' = walSeg \o SubSeq(WAL_frame(rec[1], rec[2], rec[3]), 1, n)
  /\ walTorn' = "yes"
  /\ walOut' = NoReplay
  /\ UNCHANGED <<walLog, hseed, MEMTABLE_LIMIT, tier, skip, taskVars, stratVars, mergeVars, bloomVars, sstVars, dbVars>>

\* await WAL.replay(path)
WalReplay ==
  /\ walTorn \in {"no", "yes"}
  /\ ~walOut.done
  /\ walOut' = [done |-> TRUE, res |-> WAL_replay(walSeg)]
  /\ UNCHANGED <<walSeg, walLog, walTorn, hseed, MEMTABLE_LIMIT, tier, skip, taskVars, stratVars, mergeVars, bloomVars, sstVars, dbVars>>

(***************************************************************************)
(* db.py: the engine and its data directory.                               *)
(*   sstFiles  the *.sst files of the data directory, by path              *)
(*   walFiles  the wal/wal_{seq:06d}.log files, by seq                     *)
(*   mem       DB._mem, the entries <<key, value>> in key order            *)
(*   sstables  DB._sstables, handles, newest first                         *)
(*   wal       DB._wal: its seq and whether its _fp is open                *)
(*   lock      DB._lock is held                                            *)
(*   background  DB._background: "none", "running" or "cancelled"          *)
(*   wr        the set/delete call in progress and where it is suspended   *)
(*   rd        the get call in progress and where it is suspended          *)
(* and the history the claims speak of:                                    *)
(*   last      per key, the last completed set/delete of the directory     *)
(*   sess      per key, the last completed set/delete since the last open  *)
(*   hist      [writes, opens, flushes]: calls begun, opens, flushes done; *)
(*             recovered: the last open followed a close, no write since;  *)
(*             compacted: a compaction has run                             *)
(*   opened    n: opens in a row since the last write began or compaction  *)
(*             ran; map: the mapping the first of them produced            *)
(***************************************************************************)

\* calls of set/delete begun, and calls of open, in one behaviour
MaxWrites == 3
MaxOpens == 4
\* SpecReopen: calls of set/delete and opens in one history
MaxReopenWrites == 4
MaxReopens == 7

\* _MEMTABLE_LIMIT, scaled down from 512 KiB: the size of one entry with a
\* one-byte key and a one-byte value, or of two such entries
MemtableLimits == {2, 4}
COMPACTION_TRIGGER == 4

DBKeys == {<<1>>, <<2>>}

\* the SkipList as the sorted map it implements
RECURSIVE SkipList_set(_, _, _)
SkipList_set(m, key, value) ==
  IF m = <<>> THEN <<<<key, value>>>>
  ELSE IF m[1][1] = key THEN <<<<key, value>>>> \o Tail(m)
  ELSE IF BytesLess(key, m[1][1]) THEN <<<<key, value>>>> \o m
  ELSE <<m[1]>> \o SkipList_set(Tail(m), key, value)

SkipList_get(m, key) ==
  IF \E i \in 1 .. Len(m) : m[i][1] = key
  THEN m[CHOOSE i \in 1 .. Len(m) : m[i][1] = key][2]
  ELSE None

\* a size that counts the keys only
RECURSIVE DB_mem_size_keysOnly(_)
DB_mem_size_keysOnly(m) ==
  IF m = <<>> THEN 0 ELSE Len(m[1][1]) + DB_mem_size_keysOnly(Tail(m))

\* DB._mem_size: sum(len(k) + (len(v) if v else 0) for k, v in self._mem)
RECURSIVE DB_mem_size(_)
DB_mem_size(m) ==
  IF m = <<>> THEN 0
  ELSE Len(m[1][1]) + (IF m[1][2] = None THEN 0 ELSE Len(m[1][2][1]))
         + DB_mem_size(Tail(m))

\* a set of numbers as a sequence, ascending
RECURSIVE Ascending(_)
Ascending(S) ==
  IF S = {} THEN <<>>
  ELSE LET x == CHOOSE y \in S : \A z \in S : y <= z
       IN  <<x>> \o Ascending(S \ {x})

Reverse(q) == [i \in 1 .. Len(q) |-> q[Len(q) + 1 - i]]

\* a flush that leaves the deleted keys out of the table
FlushItems_dropDeleted(m) ==
  LET live == {i \in 1 .. Len(m) : m[i][2] # None}
      idx == Ascending(live)
  IN  [j \in 1 .. Len(idx) |-> <<m[idx[j]][1], m[idx[j]][2], FALSE>>]

\* sorted((k, v, v is None) for k, v in self._mem)
FlushItems(m) == [i \in 1 .. Len(m) |-> <<m[i][1], m[i][2], m[i][2] = None>>]

\* sst.get(key) of a handle of the list: the Bloom gate, then the file that
\* is at the handle's path now (FileNotFoundError when there is none)
TableGet(files, obj, key) ==
  IF obj.path \in DOMAIN files THEN SSTable_get_sync(obj, files[obj.path], key)
  ELSE IF ~BloomFilter_contains(obj.bloom, key) THEN Ret(None)
  ELSE Raise

\* the loop of DB.get over self._sstables, from the i-th handle
RECURSIVE GetTables(_, _, _, _)
GetTables(files, tabs, key, i) ==
  IF i > Len(tabs) THEN Ret(None)
  ELSE LET r == TableGet(files, tabs[i], key)
       IN  IF ~r.ok \/ r.val # None THEN r
           ELSE GetTables(files, tabs, key, i + 1)

\* DB.get(key) run without interruption on memtable m and table list tabs
DB_get(files, m, tabs, key) ==
  LET val == SkipList_get(m, key)
  IN  IF val # None THEN Ret(val) ELSE GetTables(files, tabs, key, 1)

\* open, step 1: the handles of sorted(glob("sst_*.sst"), reverse=True)
LoadTables(files) ==
  LET ns == Reverse(Ascending({p.n : p \in {q \in DOMAIN files : q.lvl = 0}}))
  IN  [i \in 1 .. Len(ns) |-> SSTable_open(SstPath(ns[i]), files[SstPath(ns[i])])]

\* open, step 2: self._mem.set(k, None if tomb else v) for the records of
\* one segment
RECURSIVE ApplyRecords(_, _)
ApplyRecords(m, records) ==
  IF records = <<>> THEN m
  ELSE ApplyRecords(
         SkipList_set(m, records[1][1], IF records[1][3] THEN None ELSE records[1][2]),
         Tail(records))

\* a replay that takes the newest segment first
ReplayOrder_newestFirst(wfiles) == Reverse(Ascending(DOMAIN wfiles))

\* the order in which open replays the segments: sorted by WAL._parse_seq
ReplayOrder(wfiles) == Ascending(DOMAIN wfiles)

RECURSIVE ReplaySegments(_, _, _)
ReplaySegments(m, wfiles, seqs) ==
  IF seqs = <<>> THEN m
  ELSE ReplaySegments(ApplyRecords(m, WAL_replay(wfiles[seqs[1]]).records),
                      wfiles, Tail(seqs))

ReplayAll(m, wfiles) == ReplaySegments(m, wfiles, ReplayOrder(wfiles))

\* open, step 3: max(seq of the segments, default -1) + 1
NextSeq(wfiles) ==
  IF DOMAIN wfiles = {} THEN 0
  ELSE (CHOOSE x \in DOMAIN wfiles : \A y \in DOMAIN wfiles : y <= x) + 1

\* WAL.open: the segment is opened for append, created empty when missing
WalOpened(wfiles, seq) ==
  IF seq \in DOMAIN wfiles THEN wfiles ELSE wfiles @@ (seq :> <<>>)

NoOp == [op |-> "none", v |-> <<>>]
\* no open since the last write
NotOpened == [n |-> 0, map |-> [k \in DBKeys |-> Ret(None)]]

IdleWr == [pc |-> "idle", key |-> <<>>, value |-> None, items |-> <<>>]
IdleRd == [pc |-> "idle", key |-> <<>>, idx |-> 0, res |-> Ret(None),
           expect |-> NoOp, clean |-> TRUE]

\* hist.failed: the items of a flush that failed and the writes begun by then
NoFailure == [items |-> <<>>, writes |-> 0]

DbIdle ==
  /\ sstFiles = <<>> /\ walFiles = <<>> /\ mem = <<>> /\ sstables = <<>>
  /\ wal = [seq |-> 0, fp |-> FALSE] /\ lock = FALSE /\ background = "off"
  /\ wr = IdleWr /\ rd = IdleRd
  /\ last = [k \in DBKeys |-> NoOp] /\ sess = [k \in DBKeys |-> NoOp]
  /\ hist = [writes |-> 0, opens |-> 0, flushes |-> 0, recovered |-> FALSE,
            compacted |-> FALSE, failed |-> NoFailure]
  /\ opened = NotOpened


Quiescent == wr.pc = "idle" /\ rd.pc = "idle"

\* the body of DB.open on memtable m and table list tabs
DoOpen(m, tabs) ==
  /\ sstables' = tabs \o LoadTables(sstFiles)
  /\ mem' = ReplayAll(m, walFiles)
  /\ wal' = [seq |-> NextSeq(walFiles), fp |-> TRUE]
  /\ walFiles' = WalOpened(walFiles, NextSeq(walFiles))
  /\ background' = "running"
  /\ sess' = [k \in DBKeys |-> NoOp]
  /\ hist' = [hist EXCEPT !.opens = @ + 1, !.recovered = (background = "cancelled")]
  /\ opened' = [n |-> opened.n + 1,
                map |-> IF opened.n = 0
                          THEN [k \in DBKeys |-> DB_get(sstFiles, mem', sstables', k)]
                          ELSE opened.map]
  /\ UNCHANGED <<sstFiles, wr, rd, last>>

\* await db.open() on the DB object in use
DbOpen ==
  /\ Quiescent
  /\ DoOpen(mem, sstables)
  /\ UNCHANGED <<lock, notDb>>

\* the process ends (every completed append is in its segment) and a new one
\* runs db = DB(datadir); await db.open()
DbRestart ==
  /\ Quiescent
  /\ hist.opens > 0
  /\ DoOpen(<<>>, <<>>)
  /\ lock' = FALSE
  /\ UNCHANGED notDb

\* await db.close(); also the forced close of the tests:
\* db._background.cancel(); await db._wal.close()
DbClose ==
  /\ Quiescent
  /\ background = "running"
  /\ background' = "cancelled"
  /\ wal' = [wal EXCEPT !.fp = FALSE]
  /\ UNCHANGED <<sstFiles, walFiles, mem, sstables, lock, wr, rd, last, sess,
                 hist, opened, notDb>>

\* set(key, value) (value = Some(v)) or delete(key) (value = None) enters
\* `async with self._lock`
WriteBegin(key, value) ==
  /\ wr.pc = "idle" /\ rd.pc # "done"
  /\ hist.opens > 0
  /\ ~lock
  /\ lock' = TRUE
  /\ wr' = [pc |-> "append", key |-> key, value |-> value, items |-> <<>>]
  /\ hist' = [hist EXCEPT !.writes = @ + 1, !.recovered = FALSE]
  /\ opened' = NotOpened
  /\ rd' = IF rd.key = key THEN [rd EXCEPT !.clean = FALSE] ELSE rd
  /\ UNCHANGED <<sstFiles, walFiles, mem, sstables, wal, background, last, sess, notDb>>

\* await self._wal.append(key, value, tombstone): `assert self._fp` raises
\* out of the call when the WAL is closed; else the frame is written, drained
WriteAppend ==
  /\ wr.pc = "append" /\ rd.pc # "done"
  /\ IF wal.fp
     THEN /\ walFiles' = [walFiles EXCEPT ![wal.seq] =
                            @ \o WAL_frame(wr.key, wr.value, wr.value = None)]
          /\ wr' = [wr EXCEPT !.pc = "apply"]
          /\ UNCHANGED lock
     ELSE /\ wr' = IdleWr
          /\ lock' = FALSE
          /\ UNCHANGED walFiles
  /\ UNCHANGED <<sstFiles, mem, sstables, wal, background, rd, last, sess, hist,
                 opened, notDb>>

\* the numbers of bytes of a frame that reach the file when the write fails:
\* none, a part of the length prefix, all but the last byte
TornCuts(frame) == {0, 3, Len(frame) - 1}

\* a set that puts the entry into the memtable before it appends to the WAL
WriteAppendFail_memFirst(n) ==
  /\ wr.pc = "append" /\ rd.pc # "done"
  /\ wal.fp
  /\ walFiles' = [walFiles EXCEPT ![wal.seq] =
                    @ \o SubSeq(WAL_frame(wr.key, wr.value, wr.value = None), 1, n)]
  /\ mem' = SkipList_set(mem, wr.key, wr.value)
  /\ wr' = IdleWr
  /\ lock' = FALSE
  /\ UNCHANGED <<sstFiles, sstables, wal, background, rd, last, sess, hist,
                 opened, notDb>>

\* await self._wal.append(...) raises out of `self._fp.write(buff);
\* await self._fp.drain()` (OSError, ConnectionResetError) when n bytes of the
\* frame, fewer than all, have reached the file: the exception leaves set or
\* delete before self._mem.set, and `async with` releases the lock
WriteAppendFail(n) ==
  /\ wr.pc = "append" /\ rd.pc # "done"
  /\ wal.fp
  /\ walFiles' = [walFiles EXCEPT ![wal.seq] =
                    @ \o SubSeq(WAL_frame(wr.key, wr.value, wr.value = None), 1, n)]
  /\ wr' = IdleWr
  /\ lock' = FALSE
  /\ UNCHANGED <<sstFiles, mem, sstables, wal, background, rd, last, sess, hist,
                 opened, notDb>>

\* the call returns: it is the last completed operation on its key
Completed(w) ==
  /\ last' = [last EXCEPT ![w.key] =
                IF w.value = None THEN [op |-> "del", v |-> <<>>]
                ELSE [op |-> "set", v |-> w.value[1]]]
  /\ sess' = [sess EXCEPT ![w.key] =
                IF w.value = None THEN [op |-> "del", v |-> <<>>]
                ELSE [op |-> "set", v |-> w.value[1]]]

\* self._mem.set(key, value); below the limit the call returns; at the limit
\* _flush freezes the items, installs an empty memtable and closes the WAL
WriteApply ==
  /\ wr.pc = "apply" /\ rd.pc # "done"
  /\ LET m == SkipList_set(mem, wr.key, wr.value) IN
     IF DB_mem_size(m) >= MEMTABLE_LIMIT
     THEN /\ mem' = <<>>
          /\ wr' = [wr EXCEPT !.pc = "rotate", !.items = FlushItems(m)]
          /\ wal' = [wal EXCEPT !.fp = FALSE]
          /\ UNCHANGED <<lock, last, sess>>
     ELSE /\ mem' = m
          /\ wr' = IdleWr
          /\ lock' = FALSE
          /\ Completed(wr)
          /\ UNCHANGED wal
  /\ UNCHANGED <<sstFiles, walFiles, sstables, background, rd, hist, opened, notDb>>

\* _flush: self._wal = WAL(dir / "wal", seq=len(self._sstables) + 1);
\* await self._wal.open()
FlushSeq(tabs) == Len(tabs) + 1

FlushRotate ==
  /\ wr.pc = "rotate" /\ rd.pc # "done"
  /\ wal' = [seq |-> FlushSeq(sstables), fp |-> TRUE]
  /\ walFiles' = WalOpened(walFiles, FlushSeq(sstables))
  /\ wr' = [wr EXCEPT !.pc = "create"]
  /\ UNCHANGED <<sstFiles, mem, sstables, lock, background, rd, last, sess, hist,
                 opened, notDb>>

\* _flush: path = dir / f"sst_{len(self._sstables):06d}.sst"
FlushPath(tabs) == SstPath(Len(tabs))

\* a flush that puts the new table behind the older ones
InsertTable_atTail(tabs, obj) == tabs \o <<obj>>

\* self._sstables.insert(0, sst)
InsertTable(tabs, obj) == <<obj>> \o tabs

\* _flush: sst = await SSTable.create(path, items); self._sstables.insert(0, sst);
\* the call returns unless the list is now longer than the trigger
FlushCreate ==
  /\ wr.pc = "create" /\ rd.pc # "done"
  /\ LET c == SSTable_create(FlushPath(sstables), wr.items) IN
     /\ sstFiles' = [p \in DOMAIN sstFiles \cup {c.obj.path} |->
                       IF p = c.obj.path THEN c.file ELSE sstFiles[p]]
     /\ sstables' = InsertTable(sstables, c.obj)
  /\ hist' = [hist EXCEPT !.flushes = @ + 1]
  /\ IF Len(sstables) + 1 > COMPACTION_TRIGGER
     THEN /\ wr' = [wr EXCEPT !.pc = "compact"]
          /\ UNCHANGED <<lock, last, sess>>
     ELSE /\ wr' = IdleWr
          /\ lock' = FALSE
          /\ Completed(wr)
  /\ UNCHANGED <<walFiles, mem, wal, background, rd, opened, notDb>>

\* _flush: SSTable.create raises when the file cannot be written (OSError of
\* open(path, "wb")): the exception leaves _flush and set/delete, `async with`
\* releases the lock.  hist.failed keeps the items of the flush that failed.
FlushFail ==
  /\ wr.pc = "create" /\ rd.pc # "done"
  /\ wr' = IdleWr
  /\ lock' = FALSE
  /\ hist' = [hist EXCEPT !.failed = [items |-> wr.items, writes |-> hist.writes]]
  /\ UNCHANGED <<sstFiles, walFiles, mem, sstables, wal, background, rd, last, sess,
                 opened, notDb>>

(***************************************************************************)
(* SpecWriters: several tasks call set and delete on one open engine at    *)
(* the same time (asyncio.gather of writers).  tasks[t] is the call of     *)
(* task t and its position: "lock" waits in `async with self._lock`,       *)
(* "append" and "apply" are the two statements of the body, "flush" is     *)
(* `await self._flush()`.  order.app lists the calls in the order of their *)
(* WAL appends, order.apl in the order of their memtable inserts.          *)
(***************************************************************************)
Writers == {"w1", "w2"}
MaxCalls == 3

IdleTask == [pc |-> "idle", key |-> <<>>, value |-> None]

TasksIdle ==
  /\ tasks = [t \in Writers |-> IdleTask]
  /\ order = [app |-> <<>>, apl |-> <<>>]

\* a lock that lets every caller in
Lock_acquire_unlocked(l) == TRUE

\* asyncio.Lock.acquire returns only while the lock is not held
Lock_acquire(l) == ~l

\* await db.set(key, value) / db.delete(key): the call reaches the lock
TaskCall(t, key, value) ==
  /\ hist.opens > 0
  /\ tasks[t].pc = "idle"
  /\ Len(order.app) + Cardinality({u \in Writers : tasks[u].pc \in {"lock", "append"}})
       < MaxCalls
  /\ tasks' = [tasks EXCEPT ![t] = [pc |-> "lock", key |-> key, value |-> value]]
  /\ UNCHANGED <<order, dbVars, notTask>>

\* `async with self._lock` is entered
TaskAcquire(t) ==
  /\ tasks[t].pc = "lock"
  /\ Lock_acquire(lock)
  /\ lock' = TRUE
  /\ tasks' = [tasks EXCEPT ![t].pc = "append"]
  /\ UNCHANGED <<order, sstFiles, walFiles, mem, sstables, wal, background, wr, rd,
                 last, sess, hist, opened, notTask>>

\* await self._wal.append(key, value, tombstone)
TaskAppend(t) ==
  /\ tasks[t].pc = "append"
  /\ wal.fp
  /\ walFiles' = [walFiles EXCEPT ![wal.seq] =
                    @ \o WAL_frame(tasks[t].key, tasks[t].value, tasks[t].value = None)]
  /\ order' = [order EXCEPT !.app = Append(@, <<t, tasks[t].key, tasks[t].value>>)]
  /\ tasks' = [tasks EXCEPT ![t].pc = "apply"]
  /\ UNCHANGED <<sstFiles, mem, sstables, wal, lock, background, wr, rd, last, sess,
                 hist, opened, notTask>>

\* self._mem.set(key, value); below the limit the block is left
TaskApply(t) ==
  /\ tasks[t].pc = "apply"
  /\ mem' = SkipList_set(mem, tasks[t].key, tasks[t].value)
  /\ order' = [order EXCEPT !.apl = Append(@, <<t, tasks[t].key, tasks[t].value>>)]
  /\ IF DB_mem_size(mem') >= MEMTABLE_LIMIT
     THEN tasks' = [tasks EXCEPT ![t].pc = "flush"] /\ lock' = lock
     ELSE tasks' = [tasks EXCEPT ![t] = IdleTask] /\ lock' = FALSE
  /\ UNCHANGED <<sstFiles, walFiles, sstables, wal, background, wr, rd, last, sess,
                 hist, opened, notTask>>

\* await self._flush(), then the block is left
TaskFlush(t) ==
  /\ tasks[t].pc = "flush"
  /\ SSTable_create_ok(FlushItems(mem))
  /\ Len(sstables) < COMPACTION_TRIGGER
  /\ LET c == SSTable_create(FlushPath(sstables), FlushItems(mem)) IN
     /\ sstFiles' = [p \in DOMAIN sstFiles \cup {c.obj.path} |->
                       IF p = c.obj.path THEN c.file ELSE sstFiles[p]]
     /\ sstables' = InsertTable(sstables, c.obj)
  /\ mem' = <<>>
  /\ wal' = [seq |-> FlushSeq(sstables), fp |-> TRUE]
  /\ walFiles' = WalOpened(walFiles, FlushSeq(sstables))
  /\ tasks' = [tasks EXCEPT ![t] = IdleTask]
  /\ lock' = FALSE
  /\ UNCHANGED <<order, background, wr, rd, last, sess, hist, opened, notTask>>

(***************************************************************************)
(* DB._compact_level0 and DB._compaction_loop are called by db.py and      *)
(* defined nowhere in the sources: they are modelled from the              *)
(* specification (sections 4.5 and 4.6): all tables of the list are        *)
(* merged, the newest record of a key wins, tombstones are kept, the       *)
(* output replaces the inputs in one step and the input files are removed. *)
(***************************************************************************)
\* the records of a table file's data section [0, index_off)
RECURSIVE DataRecords(_, _, _)
DataRecords(file, pos, acc) ==
  IF pos >= FromBE(SubSeq(Read(file, Len(file) - FOOTER_size, FOOTER_size), 1, 8))
  THEN acc
  ELSE LET hdr == Read(file, pos, RECORD_HDR_size)
           klen == FromBE(SubSeq(hdr, 1, 4))
           vlen == FromBE(SubSeq(hdr, 5, 8))
           tomb == hdr[9] # 0
           k == Read(file, pos + RECORD_HDR_size, klen)
           v == Read(file, pos + RECORD_HDR_size + klen, vlen)
       IN  DataRecords(file, pos + RECORD_HDR_size + klen + vlen,
                       Append(acc, <<k, IF tomb THEN None ELSE Some(v), tomb>>))

\* the keys of a set as a sequence, ascending
RECURSIVE AscendingKeys(_)
AscendingKeys(S) ==
  IF S = {} THEN <<>>
  ELSE LET x == CHOOSE y \in S : \A z \in S : BytesLE(y, z)
       IN  <<x>> \o AscendingKeys(S \ {x})

\* the merge of section 4.5 over the streams (newest first)
MergeNewestWins(streams) ==
  LET keyset == {streams[i][j][1] : <<i, j>> \in
                   {x \in (1 .. Len(streams)) \X (1 .. MaxWrites + 1) :
                      x[2] <= Len(streams[x[1]])}}
      ks == AscendingKeys(keyset)
      newest(k) == CHOOSE i \in 1 .. Len(streams) :
                     /\ \E j \in 1 .. Len(streams[i]) : streams[i][j][1] = k
                     /\ \A h \in 1 .. i - 1 :
                          \A j \in 1 .. Len(streams[h]) : streams[h][j][1] # k
      rec(k) == CHOOSE r \in {streams[newest(k)][j] : j \in 1 .. Len(streams[newest(k)])} :
                  r[1] = k
  IN  [i \in 1 .. Len(ks) |-> rec(ks[i])]

NextMerged(files) ==
  LET ns == {p.n : p \in {q \in DOMAIN files : q.lvl = 1}}
  IN  IF ns = {} THEN 0 ELSE (CHOOSE x \in ns : \A y \in ns : y <= x) + 1

\* the table list and the files after the compaction of all tables of tabs
Compacted(files, tabs) ==
  LET streams == [i \in 1 .. Len(tabs) |-> DataRecords(files[tabs[i].path], 0, <<>>)]
      c == SSTable_create(MergedPath(NextMerged(files)), MergeNewestWins(streams))
      inputs == {tabs[i].path : i \in 1 .. Len(tabs)}
  IN  [tabs  |-> <<c.obj>>,
       files |-> [p \in (DOMAIN files \ inputs) \cup {c.obj.path} |->
                    IF p = c.obj.path THEN c.file ELSE files[p]]]

\* _flush: await self._compact_level0(); then set/delete returns
FlushCompact ==
  /\ wr.pc = "compact" /\ rd.pc = "idle"
  /\ sstables' = Compacted(sstFiles, sstables).tabs
  /\ sstFiles' = Compacted(sstFiles, sstables).files
  /\ wr' = IdleWr
  /\ lock' = FALSE
  /\ Completed(wr)
  /\ hist' = [hist EXCEPT !.compacted = TRUE]
  /\ UNCHANGED <<walFiles, mem, wal, background, rd, opened, notDb>>

\* the background task wakes up and finds more tables than the trigger
BackgroundCompact ==
  /\ Quiescent
  /\ background = "running" /\ ~lock
  /\ Len(sstables) > COMPACTION_TRIGGER
  /\ sstables' = Compacted(sstFiles, sstables).tabs
  /\ sstFiles' = Compacted(sstFiles, sstables).files
  /\ opened' = NotOpened
  /\ hist' = [hist EXCEPT !.compacted = TRUE]
  /\ UNCHANGED <<walFiles, mem, wal, lock, background, wr, rd, last, sess, notDb>>

(***************************************************************************)
(* DB.get as a task: the memtable lookup runs at once, every               *)
(* `await sst.get(key)` is a step of its own.  rd.idx is the position of   *)
(* the list iterator; rd.expect is the operation on the key that had       *)
(* completed in this session when the call began, and rd.clean says that   *)
(* no set/delete of the key was in progress at any time of the call.       *)
(***************************************************************************)
GetBegin(key) ==
  /\ rd.pc = "idle"
  /\ hist.opens > 0
  /\ LET val == SkipList_get(mem, key)
         r == [pc |-> "tables", key |-> key, idx |-> 0, res |-> Ret(None),
               expect |-> sess[key], clean |-> (wr.pc = "idle" \/ wr.key # key)]
     IN  rd' = IF val # None THEN [r EXCEPT !.pc = "done", !.res = Ret(val)]
               ELSE IF sstables = <<>> THEN [r EXCEPT !.pc = "done"]
               ELSE r
  /\ UNCHANGED <<sstFiles, walFiles, mem, sstables, wal, lock, background, wr,
                 last, sess, hist, opened, notDb>>

GetTable ==
  /\ rd.pc = "tables"
  /\ LET r == IF rd.idx < Len(sstables)
              THEN TableGet(sstFiles, sstables[rd.idx + 1], rd.key)
              ELSE Ret(None)
     IN  rd' = IF ~r.ok \/ r.val # None \/ rd.idx + 1 >= Len(sstables)
               THEN [rd EXCEPT !.pc = "done", !.res = r]
               ELSE [rd EXCEPT !.idx = @ + 1]
  /\ UNCHANGED <<sstFiles, walFiles, mem, sstables, wal, lock, background, wr,
                 last, sess, hist, opened, notDb>>

\* the caller has its answer
GetReturn ==
  /\ rd.pc = "done"
  /\ rd' = IdleRd
  /\ UNCHANGED <<sstFiles, walFiles, mem, sstables, wal, lock, background, wr,
                 last, sess, hist, opened, notDb>>


InitSST ==
  /\ hseed \in HashChoices /\ MEMTABLE_LIMIT = 2
  /\ sstItems \in UNION {ItemLists(n) : n \in 0 .. MaxItems}
  /\ sstPhase = "init" /\ sstFile = <<>> /\ sst = NoTable
  /\ sstGet = NoGet /\ sstScan = NoScan
  /\ BloomIdle /\ MergeIdle /\ StratIdle /\ TasksIdle /\ TierIdle /\ SkipIdle /\ WalIdle /\ DbIdle

NextSST ==
  \/ SstCreate
  \/ SstOpen
  \/ \E key \in Keys : SstGet(key)
  \/ SstScan

SpecSST == InitSST /\ [][NextSST]_vars

InitBloom ==
  /\ hseed \in HashChoices /\ MEMTABLE_LIMIT = 2
  /\ bloom \in {BloomFilter_init(m, k) : m \in 1 .. MaxBloomBits, k \in 1 .. 2}
               \cup {BloomFilter_from_capacity(n) : n \in 1 .. MaxItems}
  /\ bloomAdded = {} /\ bloomTrips = 0
  /\ MergeIdle /\ StratIdle /\ TasksIdle /\ TierIdle /\ SkipIdle /\ SstIdle /\ WalIdle /\ DbIdle

NextBloom ==
  \/ \E key \in Keys : BloomAdd(key)
  \/ BloomRoundTrip
  \/ \E n \in 1 .. MaxItems : \E its \in ItemLists(n) : BloomOfTable(its)

SpecBloom == InitBloom /\ [][NextBloom]_vars

InitMerge ==
  /\ hseed \in {CHOOSE h \in HashChoices : TRUE} /\ MEMTABLE_LIMIT = 2
  /\ mergeIn \in UNION {[1 .. n -> MergeStreams] : n \in 1 .. MaxStreams}
  /\ mergeOut = NoMerge
  /\ BloomIdle /\ StratIdle /\ TasksIdle /\ TierIdle /\ SkipIdle /\ SstIdle /\ WalIdle /\ DbIdle

NextMerge == Merge

SpecMerge == InitMerge /\ [][NextMerge]_vars

\* the item lists of the tables given to the strategy: one record each
StratItems == {its \in ItemLists(1) : its[1][1] \in MergeKeys}

InitStrategy ==
  /\ hseed \in {CHOOSE h \in HashChoices : TRUE} /\ MEMTABLE_LIMIT = 2
  /\ StratIdle /\ TasksIdle /\ TierIdle /\ SkipIdle
  /\ BloomIdle /\ MergeIdle /\ SstIdle /\ WalIdle /\ DbIdle

NextStrategy ==
  \/ \E items \in StratItems : StratAddTable(items)
  \/ StratCompact

SpecStrategy == InitStrategy /\ [][NextStrategy]_vars

InitTiered ==
  /\ hseed \in {CHOOSE h \in HashChoices : TRUE} /\ MEMTABLE_LIMIT = 2
  /\ tier \in {[base |-> b, files |-> <<>>, tables |-> <<>>, ret |-> <<>>, calls |-> 0] :
                 b \in TierBudgets}
  /\ BloomIdle /\ MergeIdle /\ StratIdle /\ TasksIdle /\ SkipIdle /\ SstIdle /\ WalIdle /\ DbIdle

NextTiered == \E items \in StratItems : TierAddTable(items)

SpecTiered == InitTiered /\ [][NextTiered]_vars

InitSkip ==
  /\ hseed \in {CHOOSE h \in HashChoices : TRUE} /\ MEMTABLE_LIMIT = 2
  /\ SkipIdle /\ TierIdle
  /\ BloomIdle /\ MergeIdle /\ StratIdle /\ TasksIdle /\ SstIdle /\ WalIdle /\ DbIdle

\* _random_level() returns any height from 1 to _MAX_LEVEL
NextSkip ==
  \E key \in Keys, value \in SkipValues, lvl \in 1 .. MAX_LEVEL : SkipSet(key, value, lvl)

SpecSkip == InitSkip /\ [][NextSkip]_vars

InitWAL ==
  /\ hseed \in {CHOOSE h \in HashChoices : TRUE} /\ MEMTABLE_LIMIT = 2
  /\ BloomIdle /\ MergeIdle /\ StratIdle /\ TasksIdle /\ TierIdle /\ SkipIdle /\ SstIdle /\ DbIdle
  /\ walSeg = <<>> /\ walLog = <<>> /\ walTorn = "no" /\ walOut = NoReplay

NextWAL ==
  \/ \E rec \in WalRecords : WalAppend(rec)
  \/ \E rec \in WalRecords, n \in 1 .. 16 : WalTornAppend(rec, n)
  \/ WalReplay

SpecWAL == InitWAL /\ [][NextWAL]_vars

\* The engine: the state after db = DB(datadir) on an empty data directory
\* the engine runs are explored with the digest of one probe position per key
EngineHashes == {h \in HashChoices : h[<<1>>].b = 0}

Init ==
  /\ hseed \in EngineHashes /\ MEMTABLE_LIMIT \in MemtableLimits
  /\ BloomIdle /\ MergeIdle /\ StratIdle /\ TasksIdle /\ TierIdle /\ SkipIdle /\ SstIdle /\ WalIdle
  /\ sstFiles = <<>> /\ walFiles = <<>> /\ mem = <<>> /\ sstables = <<>>
  /\ wal = [seq |-> 0, fp |-> FALSE] /\ lock = FALSE /\ background = "none"
  /\ wr = IdleWr /\ rd = IdleRd
  /\ last = [k \in DBKeys |-> NoOp] /\ sess = [k \in DBKeys |-> NoOp]
  /\ hist = [writes |-> 0, opens |-> 0, flushes |-> 0, recovered |-> FALSE,
            compacted |-> FALSE, failed |-> NoFailure]
  /\ opened = NotOpened

Next ==
  \/ hist.opens < MaxOpens /\ DbOpen
  \/ hist.opens < MaxOpens /\ DbRestart
  \/ DbClose
  \/ \E key \in DBKeys, value \in {None} \cup {Some(v) : v \in Values} :
       hist.writes < MaxWrites /\ WriteBegin(key, value)
  \/ WriteAppend
  \/ WriteApply
  \/ FlushRotate
  \/ FlushCreate
  \/ FlushCompact
  \/ BackgroundCompact
  \/ \E key \in DBKeys : GetBegin(key)
  \/ GetTable
  \/ GetReturn

Spec == Init /\ [][Next]_vars

(***************************************************************************)
(* SpecReopen: one caller that writes one key and opens the engine again   *)
(* and again, on the DB object in use or on a new one; longer histories    *)
(* than Spec, no concurrent get.                                           *)
(***************************************************************************)
ReopenKey == <<1>>
ReopenValues == {<<7>>, <<8>>}

NextReopen ==
  \/ hist.opens < MaxReopens /\ DbOpen
  \/ hist.opens < MaxReopens /\ DbRestart
  \/ \E value \in {None} \cup {Some(v) : v \in ReopenValues} :
       hist.writes < MaxReopenWrites /\ WriteBegin(ReopenKey, value)
  \/ WriteAppend
  \/ WriteApply
  \/ FlushRotate
  \/ FlushCreate
  \/ FlushCompact
  \/ BackgroundCompact

InitReopen == Init /\ MEMTABLE_LIMIT = 2

SpecReopen == InitReopen /\ [][NextReopen]_vars

(***************************************************************************)
(* SpecFailure: the engine is opened once and written; a flush may fail to *)
(* write its table file.                                                   *)
(***************************************************************************)
NextFailure ==
  \/ hist.opens < 1 /\ DbOpen
  \/ \E key \in DBKeys, value \in {None} \cup {Some(v) : v \in Values} :
       hist.writes < MaxWrites /\ WriteBegin(key, value)
  \/ WriteAppend
  \/ WriteApply
  \/ FlushRotate
  \/ FlushCreate
  \/ FlushFail
  \/ \E n \in TornCuts(WAL_frame(wr.key, wr.value, wr.value = None)) : WriteAppendFail(n)
  \/ DbClose
  \/ \E key \in DBKeys : GetBegin(key)
  \/ GetTable
  \/ GetReturn

SpecFailure == Init /\ [][NextFailure]_vars

(***************************************************************************)
(* SpecWriters: the engine is opened, then the tasks write.                *)
(***************************************************************************)
NextWriters ==
  \/ hist.opens < 1 /\ DbOpen
  \/ \E t \in Writers, key \in DBKeys, value \in {None} \cup {Some(v) : v \in Values} :
       TaskCall(t, key, value)
  \/ \E t \in Writers : TaskAcquire(t)
  \/ \E t \in Writers : TaskAppend(t)
  \/ \E t \in Writers : TaskApply(t)
  \/ \E t \in Writers : TaskFlush(t)

SpecWriters == Init /\ [][NextWriters]_vars

(***************************************************************************)
(* Claims about the WAL segment (SpecWAL)                                  *)
(***************************************************************************)
\* C7: replay of a segment whose appended records were all drained returns
\* exactly those records, in append order, with the same key, value and
\* tombstone flag.
C7_WalRoundTrip ==
  (walOut.done /\ walTorn = "no")
     => walOut.res = [ok |-> TRUE, records |-> walLog]

\* C7 witness: a drained segment of MaxWalRecords records, a tombstone and an
\* empty value among them, has been replayed.
C7_Witness ==
  /\ walOut.done /\ walTorn = "no" /\ Len(walLog) = MaxWalRecords
  /\ \E i \in 1 .. Len(walLog) : walLog[i][3]
  /\ \E i \in 1 .. Len(walLog) : walLog[i][2] = Some(<<>>)

\* C8: replay of a segment that ends in a partial frame does not raise and
\* returns the complete records that precede the partial frame.
C8_TornTailTolerated ==
  (walOut.done /\ walTorn = "yes")
     => walOut.res = [ok |-> TRUE, records |-> walLog]

(***************************************************************************)
(* Claims about one SSTable (SpecSST)                                      *)
(***************************************************************************)
\* the value create was given for key, None for a tombstone or a key that is
\* not in the list
Stored(its, key) ==
  IF \E i \in 1 .. Len(its) : its[i][1] = key /\ ~its[i][3]
  THEN (CHOOSE r \in {its[i] : i \in 1 .. Len(its)} : r[1] = key)[2]
  ELSE None

\* C9: get(k) on a table created from a sorted, deduplicated item list
\* returns the stored value of a live key, and absent for a tombstoned key
\* and for a key that is not in the list.
C9_GetLocatesEveryKey ==
  (sstPhase \in {"created", "opened"} /\ sstGet.done)
     => sstGet.res = Ret(Stored(sstItems, sstGet.key))

\* C9 witness: a live key of the second sparse-index block has been looked
\* up in a table loaded with open.
C9_Witness ==
  /\ sstPhase = "opened" /\ sstGet.done /\ Len(sst.index) >= 2
  /\ Len(sstItems) > BLOCK
  /\ sstGet.key = sstItems[Len(sstItems)][1]
  /\ sstGet.res.val # None

\* C10: scan() yields every record handed to create exactly once, in order,
\* with the same key, value and tombstone flag.
C10_ScanYieldsAllRecords ==
  (sstPhase \in {"created", "opened"} /\ sstScan.done)
     => sstScan.records = sstItems

(***************************************************************************)
(* Claims about the engine (Spec)                                          *)
(***************************************************************************)
\* what get(key) returns now, run without interruption
LiveGet(key) == DB_get(sstFiles, mem, sstables, key)

\* what get(key) returns after db = DB(datadir); await db.open() on the data
\* directory as it is now
RecoveredGet(key) ==
  DB_get(sstFiles, ReplayAll(<<>>, walFiles), LoadTables(sstFiles), key)

\* the answer a completed operation asks for
Expected(o) == IF o.op = "set" THEN Ret(Some(o.v)) ELSE Ret(None)

\* the key is in no record of the table's file
NotInTable(obj, key) ==
  \A r \in {DataRecords(sstFiles[obj.path], 0, <<>>)[i] :
              i \in 1 .. Len(DataRecords(sstFiles[obj.path], 0, <<>>))} : r[1] # key

\* C1: between calls, a key whose last operation since the engine was opened
\* is set(k, v) reads as v, wherever older versions of it are.
C1_LastSetIsRead ==
  \A k \in DBKeys :
    (wr.pc = "idle" /\ sess[k].op = "set") => LiveGet(k) = Expected(sess[k])

\* C1 witness: the last set of a key is in the older of two L0 tables, the
\* newer table and the memtable do not hold the key, and get finds it.
C1_Witness ==
  \E k \in DBKeys :
    /\ wr.pc = "idle" /\ sess[k].op = "set"
    /\ SkipList_get(mem, k) = None
    /\ Len(sstables) >= 2
    /\ NotInTable(sstables[1], k)
    /\ ~NotInTable(sstables[2], k)
    /\ LiveGet(k) = Expected(sess[k])

\* C2: between calls, a key whose last operation since the engine was opened
\* is delete(k) reads as absent.
C2_LastDeleteIsAbsent ==
  \A k \in DBKeys :
    (wr.pc = "idle" /\ sess[k].op = "del") => LiveGet(k) = Ret(None)

\* C3: between operations of an open engine, recovery from the data
\* directory gives every key the value the live engine's get returns.
C3_RecoveryMatchesLive ==
  (Quiescent /\ background = "running")
     => \A k \in DBKeys : RecoveredGet(k) = LiveGet(k)

\* C4: when no flush has ever happened and the engine was closed and opened
\* again, every key reads as its last completed set, absent after a delete.
C4_CompletedCallsSurviveReopen ==
  (Quiescent /\ hist.flushes = 0 /\ hist.recovered)
     => \A k \in DBKeys : LiveGet(k) = Expected(last[k])

\* C4 witness: after a close without flush and an open, one key reads as its
\* last set and another, deleted after a set, as absent.
C4_Witness ==
  /\ Quiescent /\ hist.flushes = 0 /\ hist.recovered
  /\ \E k \in DBKeys : last[k] = [op |-> "set", v |-> <<7>>]
                        /\ LiveGet(k) = Ret(Some(<<7>>))
  /\ \E k \in DBKeys : last[k].op = "del" /\ LiveGet(k) = Ret(None)
  /\ Len(mem) = 2

\* the logical key -> value mapping of the engine
Mapping == [k \in DBKeys |-> LiveGet(k)]

\* C5: after two or more opens in a row with no write in between (and no
\* compaction so far), the logical mapping is the one the first of these
\* opens produced.
C5_OpenIsIdempotent ==
  (Quiescent /\ opened.n >= 2 /\ ~hist.compacted) => Mapping = opened.map

\* C6: a get returns the value of a set of its key that had completed when
\* the get began, whatever a concurrent set/delete of another key (and its
\* flush) is doing.
C6_GetSeesCommittedDuringFlush ==
  (rd.pc = "done" /\ rd.clean /\ rd.expect.op = "set")
     => rd.res = Expected(rd.expect)

\* the last completed operation is set(k, b"")
SetEmpty == [op |-> "set", v |-> <<>>]

StreamKeys(stream) == {stream[j][1] : j \in 1 .. Len(stream)}

RecordOf(stream, k) == CHOOSE r \in {stream[j] : j \in 1 .. Len(stream)} : r[1] = k

\* the streams of the input that hold a record of key k
Holders(k) == {i \in 1 .. Len(mergeIn) : k \in StreamKeys(mergeIn[i])}

\* the stream of the newest priority among them: the lowest number
NewestHolder(k) == CHOOSE i \in Holders(k) : \A h \in Holders(k) : i <= h

\* C13: when a key occurs in several input streams and the merge returns,
\* the one record emitted for that key is the record of the stream with
\* the newest priority, whatever the values and tombstone flags are.
C13_MergeShadowing ==
  (mergeOut.done /\ mergeOut.res.ok) =>
    \A k \in MergeKeys :
      Cardinality(Holders(k)) >= 2 =>
        \E j \in 1 .. Len(mergeOut.res.val) :
          /\ mergeOut.res.val[j] = RecordOf(mergeIn[NewestHolder(k)], k)
          /\ \A h \in 1 .. Len(mergeOut.res.val) :
               mergeOut.res.val[h][1] = k => h = j

\* C14: for input streams each sorted by key, the merge gives an output
\* that is in strictly ascending key order and holds every key of the
\* input exactly once.
C14_MergeOrdering ==
  mergeOut.done =>
    /\ mergeOut.res.ok
    /\ \A j \in 1 .. Len(mergeOut.res.val) - 1 :
         BytesLess(mergeOut.res.val[j][1], mergeOut.res.val[j + 1][1])
    /\ StreamKeys(mergeOut.res.val) = UNION {StreamKeys(mergeIn[i]) : i \in 1 .. Len(mergeIn)}

\* C28: the merge preserves tombstones: every key of an input stream occurs
\* in the merged output, and a key whose newest record is a tombstone is
\* emitted as a tombstone.
C28_MergeKeepsTombstones ==
  mergeOut.done =>
    \A k \in MergeKeys :
      (Holders(k) # {} /\ RecordOf(mergeIn[NewestHolder(k)], k)[3]) =>
        /\ mergeOut.res.ok
        /\ \E j \in 1 .. Len(mergeOut.res.val) : mergeOut.res.val[j] = <<k, None, TRUE>>


(***************************************************************************)
(* The compaction strategy (SpecStrategy)                                  *)
(***************************************************************************)
\* the table handles that are members of some level
Members == UNION {{levels[i][j] : j \in 1 .. Len(levels[i])} : i \in 1 .. Len(levels)}

L0_STALL == 8

\* C16: while the table list holds more than L0_STALL tables, no set or
\* delete call appends to the WAL or inserts into the memtable.
C16_BackPressure ==
  [][Len(sstables) > L0_STALL =>
       /\ ~(wr.pc = "append" /\ wr'.pc = "apply")
       /\ ~(wr.pc = "apply" /\ wr'.pc # "apply")]_vars

\* C17: after a flush failed to write its table, the entries of the flushed
\* memtable are still read by get (as long as no later call wrote), and
\* later set and delete calls proceed.
C17_FlushFailureRetainsEntries ==
  (hist.failed.items # <<>> /\ hist.writes = hist.failed.writes) =>
    /\ ~lock /\ wal.fp
    /\ \A i \in 1 .. Len(hist.failed.items) :
         ~hist.failed.items[i][3] =>
           LiveGet(hist.failed.items[i][1]) = Ret(hist.failed.items[i][2])

\* C18: every flush writes its table to a path that does not yet exist in
\* the data directory, and no step changes the bytes of a table file that
\* exists, whatever flushes, compactions and opens came before.
C18_TableFilesAreNeverOverwritten ==
  [][/\ (wr.pc = "create" /\ hist'.flushes = hist.flushes + 1)
          => FlushPath(sstables) \notin DOMAIN sstFiles
     /\ \A p \in DOMAIN sstFiles \cap DOMAIN sstFiles' : sstFiles'[p] = sstFiles[p]]_vars

\* C19: every WAL segment that becomes the active one, at open or by the
\* rotation of a flush, has a sequence number greater than that of every
\* segment already in the wal directory.
C19_WalSeqIsMonotonic ==
  [][(hist'.opens = hist.opens + 1 \/ (wr.pc = "rotate" /\ wr'.pc = "create"))
       => \A seq \in DOMAIN walFiles : wal'.seq > seq]_vars

\* the records of the data section of a table file, and its length when
\* every tombstone record has value length 0
TableRecords(file) == DataRecords(file, 0, <<>>)

RECURSIVE RecordBytes(_)
RecordBytes(items) ==
  IF items = <<>> THEN 0
  ELSE RECORD_HDR_size + Len(items[1][1])
         + (IF items[1][3] THEN 0 ELSE Len(items[1][2][1])) + RecordBytes(Tail(items))

\* C20: a flush freezes exactly the entries of the memtable, each key once
\* in strictly ascending key order, deleted keys as tombstones, and leaves
\* an empty memtable; it writes them as one new table, tombstones with
\* value length 0, and inserts the table at the head of the table list.
C20_FlushWritesTheMemtable ==
  [][/\ (wr.pc = "apply" /\ wr'.pc = "rotate") =>
          LET m == SkipList_set(mem, wr.key, wr.value) IN
          /\ mem' = <<>>
          /\ {wr'.items[i][1] : i \in 1 .. Len(wr'.items)} = {m[i][1] : i \in 1 .. Len(m)}
          /\ \A i \in 1 .. Len(wr'.items) - 1 :
               BytesLess(wr'.items[i][1], wr'.items[i + 1][1])
          /\ \A i \in 1 .. Len(wr'.items) :
               /\ wr'.items[i][2] = SkipList_get(m, wr'.items[i][1])
               /\ wr'.items[i][3] = (SkipList_get(m, wr'.items[i][1]) = None)
     /\ (wr.pc = "create" /\ hist'.flushes = hist.flushes + 1) =>
          /\ mem' = <<>>
          /\ sstables' = <<sstables'[1]>> \o sstables
          /\ TableRecords(sstFiles'[sstables'[1].path]) = wr.items
          /\ sstables'[1].data_end = RecordBytes(wr.items)]_vars

\* two flushes: the older table holds two tombstones, the newer one, at the
\* head of the list, a value; the memtable is empty
C20_Witness ==
  /\ wr.pc = "idle" /\ hist.flushes = 2 /\ mem = <<>>
  /\ Len(sstables) = 2
  /\ sstables[1].path # sstables[2].path
  /\ TableRecords(sstFiles[sstables[2].path])
       = <<<<(<<1>>), None, TRUE>>, <<(<<2>>), None, TRUE>>>>
  /\ \E k \in DBKeys : TableRecords(sstFiles[sstables[1].path]) = <<<<k, Some(<<7>>), FALSE>>>>

\* C21: a set or delete call never holds the engine lock in a state in
\* which it waits for I/O: the WAL append and drain, the WAL rotation of a
\* flush, or the table write of a flush.
C21_NoLockAcrossIO ==
  wr.pc \in {"append", "rotate", "create"} => ~lock

\* the value of the last call on key k in a sequence of calls <<t, key, value>>
LastOn(calls, k) ==
  LET idx == {i \in 1 .. Len(calls) : calls[i][2] = k}
  IN  calls[CHOOSE i \in idx : \A j \in idx : j <= i][3]

\* C22: the calls are applied to the memtable in the order in which they
\* were appended to the WAL, and when no call is between its append and its
\* apply, every key of the memtable has the value of the last WAL record
\* of that key.
C22_AppendOrderIsApplyOrder ==
  /\ Len(order.apl) <= Len(order.app)
  /\ order.apl = SubSeq(order.app, 1, Len(order.apl))
  /\ Len(order.apl) = Len(order.app) =>
       \A i \in 1 .. Len(mem) : mem[i][2] = LastOn(order.app, mem[i][1])

\* a task waits for the lock while another is between append and apply,
\* and both have written the same key before
C22_Witness ==
  /\ \E t, u \in Writers :
       /\ tasks[t].pc = "lock" /\ tasks[u].pc = "apply"
       /\ tasks[t].key = tasks[u].key /\ tasks[t].value # tasks[u].value
  /\ Len(order.apl) >= 1

\* the records a WAL segment file holds
SegmentRecords(file) ==
  {WAL_replay(file).records[i] : i \in 1 .. Len(WAL_replay(file).records)}

\* C23: once a flush has completed, the WAL segment that backed the flushed
\* memtable is removed: no segment file of the wal directory holds a record
\* of an entry that the flush has just written to its table.
C23_FlushDiscardsItsSegment ==
  [][(wr.pc = "create" /\ hist'.flushes = hist.flushes + 1) =>
       \A seq \in DOMAIN walFiles' : \A i \in 1 .. Len(wr.items) :
         wr.items[i] \notin SegmentRecords(walFiles'[seq])]_vars

\* C24: the index of a table created from n >= 1 sorted items has one entry
\* for every record whose position (from 0) is a multiple of BLOCK, the
\* first record included, at offset 0; each entry holds the key of its
\* record and the byte offset where the record starts, and the index keys
\* are strictly ascending.
C24_SparseIndex ==
  (sstPhase \in {"created", "opened"}) =>
    /\ Len(sst.index) = (Len(sstItems) + BLOCK - 1) \div BLOCK
    /\ sst.index[1] = <<sstItems[1][1], 0>>
    /\ \A j \in 1 .. Len(sst.index) :
         /\ sst.index[j][1] = sstItems[(j - 1) * BLOCK + 1][1]
         /\ sst.index[j][2] = RecordBytes(SubSeq(sstItems, 1, (j - 1) * BLOCK))
         /\ Read(sstFile, sst.index[j][2] + RECORD_HDR_size, Len(sst.index[j][1]))
              = sst.index[j][1]
    /\ \A j \in 1 .. Len(sst.index) - 1 : BytesLess(sst.index[j][1], sst.index[j + 1][1])

\* a table of three records, the first with a value, loaded with open: two
\* index entries, the second at the offset of the third record
C24_Witness ==
  /\ sstPhase = "opened" /\ Len(sstItems) = 3 /\ Len(sst.index) = 2
  /\ ~sstItems[1][3] /\ sstItems[1][2] = Some(<<7>>) /\ sstItems[2][3]
  /\ sst.index[2][2] = 2 * RECORD_HDR_size + Len(sstItems[1][1]) + 1 + Len(sstItems[2][1])

\* the file positions at which the record loop of _get_sync reads a record
\* header when it looks for key from position pos up to limit
RECURSIVE HeadersRead(_, _, _, _)
HeadersRead(file, pos, limit, key) ==
  IF ~(pos < limit) THEN {}
  ELSE LET hdr == Read(file, pos, RECORD_HDR_size) IN
       IF Len(hdr) < RECORD_HDR_size THEN {}
       ELSE LET klen == FromBE(SubSeq(hdr, 1, 4))
                vlen == FromBE(SubSeq(hdr, 5, 8))
                k == Read(file, pos + RECORD_HDR_size, klen)
                v == Read(file, pos + RECORD_HDR_size + Len(k), vlen)
            IN  IF k = key THEN {pos}
                ELSE {pos} \cup HeadersRead(file, pos + RECORD_HDR_size + Len(k) + Len(v),
                                            limit, key)

\* C25: a point lookup that passes the Bloom filter scans the records of
\* [start, end), where end is the offset of the next index entry or, for
\* the last block, the offset at which the index blob begins; so for a
\* handle returned by create and for a handle loaded by open.
C25_ScanStopsAtDataEnd ==
  (sstGet.done /\ BloomFilter_contains(sst.bloom, sstGet.key)) =>
    LET lo == BSearch(sst.index, sstGet.key, 0, Len(sst.index))
        start_off == IF lo # 0 THEN sst.index[lo][2] ELSE 0
    IN  /\ \A pos \in HeadersRead(sstFile, start_off, ScanEnd(sst, sstFile, lo), sstGet.key) :
             pos + RECORD_HDR_size <= RecordBytes(sstItems)
        /\ ScanEnd(sst, sstFile, lo) =
             (IF lo < Len(sst.index) THEN sst.index[lo + 1][2] ELSE RecordBytes(sstItems))


\* C26: LeveledCompaction.add_table appends the table to L0 and returns the
\* tables to compact: all the tables of L0 when L0 then holds more than 4
\* tables, the empty list when it holds 4 or fewer; a compaction of level 0
\* is given exactly the list returned.
C26_L0Trigger ==
  [][/\ (~compacted.done /\ compacted'.done) =>
          (Len(levels[1]) > 4 /\ compacted'.inputs = levels[1])
     /\ (Cardinality(DOMAIN stratFiles') = Cardinality(DOMAIN stratFiles) + 1
          /\ ~compacted'.done) =>
       LET before == IF levels = <<>> THEN <<>> ELSE levels[1]
           ret == LeveledCompaction_add_table_returns(levels')
       IN  /\ Len(levels'[1]) = Len(before) + 1
           /\ SubSeq(levels'[1], 1, Len(before)) = before
           /\ levels'[1][Len(before) + 1].path \notin DOMAIN stratFiles
           /\ (ret # <<>>) <=> (Len(levels'[1]) > 4)
           /\ Len(levels'[1]) > 4 => ret = levels'[1]
           /\ Len(levels'[1]) <= 4 => ret = <<>>]_vars

C26_Witness ==
  /\ levels # <<>> /\ Len(levels[1]) = 5 /\ ~compacted.done
  /\ LeveledCompaction_add_table_returns(levels) = levels[1]


\* C27: TieredCompaction.add_table appends the table to the tier and
\* schedules a merge of all the tables of the tier when the tier's total
\* size exceeds its budget or when the tier holds at least 4 tables
\* (TIER_MIN_RUNS); otherwise it returns the empty list.
C27_TierTrigger ==
  tier.calls > 0 =>
    IF Level_size(tier.files, tier.tables) > tier.base \/ Len(tier.tables) >= 4
    THEN tier.ret = tier.tables
    ELSE tier.ret = <<>>


\* the bytes of the memtable m: the key lengths plus the value lengths, a
\* deleted key counting its key only
RECURSIVE EntryBytes(_)
EntryBytes(m) ==
  IF m = <<>> THEN 0
  ELSE LET v == m[1][2]
       IN  Len(m[1][1]) + (IF v = None THEN 0 ELSE Len(v[1])) + EntryBytes(Tail(m))

\* C29: when a set or delete call returns, the size of the memtable is below
\* the flush threshold; a write that brings the size to the threshold starts
\* the flush in the same step, with the call still running, and the call
\* that returns after it has written the table.
C29_MemtableBelowLimit ==
  [][/\ (wr.pc \in {"apply", "create", "compact"} /\ wr'.pc = "idle") =>
          EntryBytes(mem') < MEMTABLE_LIMIT
     /\ (wr.pc = "apply" /\ wr' # wr
           /\ EntryBytes(SkipList_set(mem, wr.key, wr.value)) >= MEMTABLE_LIMIT) =>
          /\ wr'.pc = "rotate" /\ lock'
          /\ mem' = <<>>
          /\ EntryBytes(SkipList_set(mem, wr.key, wr.value)) = RecordBytes(wr'.items)
                - RECORD_HDR_size * Len(wr'.items)
     /\ (wr.pc = "create" /\ wr'.pc = "idle") => hist'.flushes = hist.flushes + 1]_vars

C29_Witness ==
  /\ wr.pc = "idle" /\ opened = NotOpened
  /\ hist.flushes >= 1 /\ hist.writes >= 2
  /\ mem # <<>> /\ EntryBytes(mem) = MEMTABLE_LIMIT - 1


\* C30: when open has replayed the WAL segments and the rebuilt memtable is
\* at or above the flush threshold, open starts a flush: once open has
\* completed, the memtable is below the threshold or is being flushed.
C30_OpenFlushesReplayedMemtable ==
  [][hist'.opens = hist.opens + 1 =>
       \/ EntryBytes(mem') < MEMTABLE_LIMIT
       \/ wr'.pc \in {"rotate", "create"}]_vars

(***************************************************************************)
(* The skip list (SpecSkip)                                                *)
(***************************************************************************)
\* the sorted map after the calls, each <<lvl, key, value>>
RECURSIVE ApplySets(_)
ApplySets(calls) ==
  IF calls = <<>> THEN <<>>
  ELSE SkipList_set(ApplySets(SubSeq(calls, 1, Len(calls) - 1)),
                    calls[Len(calls)][2], calls[Len(calls)][3])

\* C31: for every choice of node heights, after any sequence of set calls
\* the iteration of the skip list yields each distinct key once, in strictly
\* ascending key order, with the value most recently set for it; get(k)
\* returns that value (None for a key never set), len is the number of
\* distinct keys, and the iteration is the sorted map the engine's memtable
\* is modelled by.
C31_SkipListIsSortedMap ==
  LET it == SkipListNodes_iter(skip.nodes, skip.nodes[1].forward[1])
      keys == {skip.calls[i][2] : i \in 1 .. Len(skip.calls)}
  IN  /\ \A j \in 1 .. Len(it) - 1 : BytesLess(it[j][1], it[j + 1][1])
      /\ {it[j][1] : j \in 1 .. Len(it)} = keys
      /\ Len(it) = Cardinality(keys)
      /\ \A j \in 1 .. Len(it) : it[j][2] = LastOn(skip.calls, it[j][1])
      /\ \A k \in Keys :
           SkipListNodes_get(skip, k) = (IF k \in keys THEN LastOn(skip.calls, k) ELSE None)
      /\ skip.size = Cardinality(keys)
      /\ it = ApplySets(skip.calls)
      /\ \A k \in Keys : SkipListNodes_get(skip, k) = SkipList_get(ApplySets(skip.calls), k)

C31_Witness ==
  /\ Len(skip.calls) = 4 /\ skip.size = 3 /\ skip.level = MAX_LEVEL
  /\ skip.calls[1][2] = <<3>> /\ skip.calls[2][2] = <<1>> /\ skip.calls[3][2] = <<1, 2>>
  /\ skip.calls[4][2] = <<1, 2>> /\ skip.calls[4][3] # skip.calls[3][3]
  /\ Len(skip.nodes[2].forward) = 1 /\ Len(skip.nodes[3].forward) = 3
  /\ Len(skip.nodes[4].forward) = 2
  /\ SkipListNodes_get(skip, <<1, 2>>) = skip.calls[4][3]


\* C32: when the WAL append of a set or delete raises, because the WAL has
\* been closed or because the write fails, the memtable, the table list and
\* the table files are as before the call, the call is not recorded as
\* completed, every get answers as before the call, and the lock is free.
C32_FailedAppendChangesNothing ==
  [][(wr.pc = "append" /\ wr'.pc = "idle") =>
       /\ mem' = mem /\ sstables' = sstables /\ sstFiles' = sstFiles
       /\ last' = last
       /\ \A k \in DBKeys :
            DB_get(sstFiles', mem', sstables', k) = DB_get(sstFiles, mem, sstables, k)
       /\ ~lock']_vars

C32_Witness ==
  /\ wr.pc = "idle" /\ ~lock /\ wal.fp
  /\ hist.writes = 2 /\ Len(mem) = 1 /\ sstables = <<>>
  /\ ~WAL_replay(walFiles[wal.seq]).ok


(***************************************************************************)
(* Claims about the Bloom filter (SpecBloom)                               *)
(***************************************************************************)
\* C11: every key added to a filter of m >= 1 bits is reported present, also
\* after to_bytes / from_bytes and in the filter SSTable.open reads back for
\* the keys of the table's data section.
C11_NoFalseNegatives ==
  bloom.m >= 1 => \A key \in bloomAdded : BloomFilter_contains(bloom, key)

\* C11 witness: a filter that went through the bytes of a file holds two
\* keys, reports them present and reports another key absent.
C11_Witness ==
  /\ bloomTrips >= 1 /\ Cardinality(bloomAdded) >= 2
  /\ \A key \in bloomAdded : BloomFilter_contains(bloom, key)
  /\ \E key \in Keys \ bloomAdded : ~BloomFilter_contains(bloom, key)

====
